---------------------------- MODULE Spec2Model ----------------------------
(***************************************************************************)
(* A model of the session core of rpg_ai: the player registry              *)
(* (src/core/player.py), the action queue and its processor                *)
(* (src/core/action_queue.py) and the bounded game history                 *)
(* (src/core/game_state.py).                                               *)
(*                                                                         *)
(* PlayerAction objects are shared by reference between the queue's list,  *)
(* a flush's snapshot and last_story_context, so they live in a heap: the  *)
(* n-th object created is heap[n], and lists hold object numbers.          *)
(*                                                                         *)
(* A method that blocks or logs between its reads and writes of shared     *)
(* state is split into one action per step; the specifications differ in   *)
(* which interleavings of those steps they allow.                          *)
(***************************************************************************)
EXTENDS Integers, Sequences, FiniteSets, TLC

(***************************************************************************)
(* Bounds of the model                                                     *)
(***************************************************************************)
\* largest value of server.max_players the model tries
MaxPlayersCfg == 3
\* number of Player objects ever created
MaxIds == 4
\* number of PlayerAction objects ever created
MaxActions == 2
\* largest value of game.max_history the model tries
MaxHistoryCfg == 2
\* number of add_to_history calls beyond max_history
MaxExtra == 2
\* the most quests a run adds
MaxQuests == 2
\* the most add_to_history calls a run of the saved GameState makes
MaxGameEvents == 5
\* the most messages a client sends before it leaves
MaxMessages == 1
\* the most messages the game master handles in a run
MaxTurns == 3

None == "None"

\* candidate names a client may type (one is the suffixed form of another)
NameInputs == {"Ana", "Ana_1", "Bruno"}
\* socket objects
Conns == {"c1", "c2", "c3"}
\* the connections the server accepts
Clients == {"c1", "c2"}
\* the player ids that submit actions
Submitters == {"u1", "u2"}
\* the closed set of action types add_action accepts
ActionTypes == {"fazer", "dizer", "historia"}
\* the action_type arguments add_action is called with
SubmittedTypes == ActionTypes \cup {"atacar"}
\* the free text typed after the command word: the n-th submission carries a
\* text of its own (no code compares or parses contents)
ContentOf(n) == "texto " \o ToString(n)
\* ActionQueue.processing_order
Orders == {"chronological", "priority", "random"}
\* ActionQueue.tie_breaker ('roll' is named in a comment and has no code: it
\* behaves as 'timestamp')
TieBreakers == {"timestamp", "player_order"}
\* every value the attribute is documented to take
TieBreakerSettings == TieBreakers \cup {"roll"}
\* the largest batch a sorted flush is given
MaxBatch == 3
\* the clock readings of the message loop go up to this many minutes
MaxClock == 3
\* game.session_timeout is set to at most this many minutes
MaxTimeout == 2
\* what generate_response can return: no reply, an empty reply, a reply
AIResponses == {None, "", "narracao"}

VARIABLES
    \* ---- PlayerManager ----
    max_players,            \* PlayerManager.max_players
    players,                \* PlayerManager.players: dict in insertion order, a sequence of Player records
    players_by_connection,  \* PlayerManager.players_by_connection: connection -> player id, None = no key
    next_id,                \* number of Player objects created so far
    reg_ret,                \* last PlayerManager call and what it returned
    \* ---- GameState ----
    max_history,            \* config.get('game.max_history', 100)
    game_history,           \* GameState.game_history
    history_count,          \* number of add_to_history calls so far (the entries' timestamps)
    history_log,            \* observer: every entry passed to add_to_history by a direct call, in call order
    \* ---- ActionQueue ----
    heap,                   \* the PlayerAction objects created so far
    actions,                \* ActionQueue.actions: object numbers
    last_story_context,     \* ActionQueue.last_story_context: an object number, 0 = None
    processing_order,       \* ActionQueue.processing_order
    tie_breaker,            \* ActionQueue.tie_breaker
    clock,                  \* the last reading of datetime.now()
    \* ---- ActionProcessor ----
    processing_history,     \* ActionProcessor.processing_history
    ai_calls,               \* number of generate_response calls made so far
    fl,                     \* the thread inside process_all_actions: its position and locals
    cl,                     \* the thread inside clear_processed_actions: its position and locals
    q_last,                 \* observer: the queue call that completed last, and its count
    late,                   \* observer: the objects added while the flush that returned last was running
    fl2,                    \* a second thread inside process_all_actions: its position and locals
    \* ---- GameState: locations, quests, save files ----
    player_locations,       \* GameState.player_locations: player id -> location name
    active_quests,          \* GameState.active_quests
    completed_quests,       \* GameState.completed_quests
    save_file,              \* the file save_game_state writes: whether it exists and its JSON document
    saved,                  \* observer: the four saved fields as they were when the file was written
    fresh,                  \* a second GameState instance, the one load_game_state is called on
                            \* (source: observer, the saved fields of the file it read)
    sessions,               \* the GameSession objects created so far
    current_session,        \* GameState.current_session: the number of a GameSession object
    total_sessions,         \* GameState.metadata['total_sessions']
    \* ---- SimpleGameMaster ----
    gm,                     \* the thread inside process_player_action or the broadcast after it:
                            \* its position, arguments and response (entry: observer, the state
                            \* at the call)
    last_activity,          \* Player.last_activity of each player, a reading of the clock
    config,                 \* the configuration values the message loop reads
    last_save,              \* GameState.metadata['last_save']
    autosave,               \* the auto-save thread: its position and the outcome of its last attempt
    \* ---- RPGGameServer: one handler thread per connection ----
    is_running,             \* RPGGameServer.is_running
    hpc,                    \* client -> position of its _handle_client thread
    hnd,                    \* client -> the thread's locals (player_name, player and its name)
                            \* and observers (messages, exit, log)
    it                      \* client -> the dict iterator of the broadcast_message call the thread is in

regVars == <<max_players, players, players_by_connection, next_id, reg_ret>>

histVars == <<max_history, game_history, history_count, history_log>>

queueVars == <<heap, actions, last_story_context, processing_order, tie_breaker, clock>>

procVars == <<processing_history, ai_calls, fl, cl, q_last, late, fl2>>

gameVars == <<player_locations, active_quests, completed_quests, save_file, saved, fresh>>

netVars == <<is_running, hpc, hnd, it>>

moreVars == <<sessions, current_session, total_sessions, gm, last_activity, config,
             last_save, autosave>>

restVars == <<gameVars, netVars, moreVars>>

vars == <<regVars, histVars, queueVars, procVars, restVars>>

Range(s) == {s[i] : i \in 1..Len(s)}

(***************************************************************************)
(* Components that take no part in the specification at hand               *)
(***************************************************************************)
RegistryIdle ==
    /\ max_players = 0
    /\ players = <<>>
    /\ players_by_connection = [c \in Conns |-> None]
    /\ next_id = 0
    /\ reg_ret = [op |-> "init", arg |-> None, ret |-> None]

HistoryIdle ==
    /\ max_history = 0
    /\ game_history = <<>>
    /\ history_count = 0
    /\ history_log = <<>>

\* the locals of a thread that is not inside process_all_actions
FlushLocalsIdle ==
    [pc |-> "idle", unprocessed_actions |-> <<>>, story_context |-> None,
     sorted_actions |-> <<>>, i |-> 0, results |-> <<>>,
     game_state_updates |-> <<>>, ret |-> None,
     pending0 |-> {}, base |-> 0, ai_text |-> FALSE, contexts |-> <<>>]

\* the locals of a thread that is not inside clear_processed_actions
ClearLocalsIdle ==
    [pc |-> "idle", initial_count |-> 0, kept |-> <<>>, ret |-> 0,
     before |-> <<>>, base |-> 0, prev_removed |-> -1]

\* no second instance, no file
NoFresh ==
    [pc |-> "none", game_history |-> <<>>, player_locations |-> <<>>,
     active_quests |-> <<>>, completed_quests |-> <<>>, source |-> <<>>]

NoFile == [exists |-> FALSE, valid |-> FALSE, doc |-> <<>>]

GameIdle ==
    /\ player_locations = <<>>
    /\ active_quests = <<>>
    /\ completed_quests = <<>>
    /\ save_file = NoFile
    /\ saved = <<>>
    /\ fresh = NoFresh

\* the locals of a handler thread that has not started
HandlerIdle ==
    [player_name |-> None, player |-> None, name |-> None, messages |-> 0,
     exit |-> "none", log |-> <<>>]

\* no broadcast_message call in progress on the thread
IterIdle ==
    [outcome |-> "none", size |-> 0, exclude_player |-> None,
     passed |-> {}, attempts |-> <<>>, targets |-> {}]

NetIdle ==
    /\ is_running = TRUE
    /\ hpc = [c \in Clients |-> "new"]
    /\ hnd = [c \in Clients |-> HandlerIdle]
    /\ it = [c \in Clients |-> IterIdle]

\* no thread is handling a message
MasterIdle ==
    [pc |-> "idle", c |-> None, message |-> "", command |-> None, response |-> None,
     raised |-> FALSE, turns |-> 0, entry |-> <<>>]

\* config.get(key, 0) with no configuration file: both timeouts disabled
DefaultConfig == [session_timeout |-> 0, player_name_timeout |-> 0]

\* metadata['last_save'] of a GameState that was never saved
NeverSaved == [is_none |-> TRUE]

\* the auto-save thread before its first turn
AutoSaveIdle == [pc |-> "test", last |-> "none"]

\* GameState.__init__: a GameSession that has not been started
MoreIdle ==
    /\ sessions = <<[session_name |-> "Sessao RPG", is_active |-> FALSE]>>
    /\ current_session = 1
    /\ total_sessions = 0
    /\ gm = MasterIdle
    /\ config = DefaultConfig
    /\ last_save = NeverSaved
    /\ autosave = AutoSaveIdle
    /\ last_activity = <<>>

RestIdle == GameIdle /\ NetIdle /\ MoreIdle

QueueIdle ==
    /\ heap = <<>>
    /\ actions = <<>>
    /\ last_story_context = 0
    /\ processing_order = "chronological"
    /\ tie_breaker = "timestamp"
    /\ clock = 0
    /\ processing_history = <<>>
    /\ ai_calls = 0
    /\ fl = FlushLocalsIdle
    /\ fl2 = FlushLocalsIdle
    /\ cl = ClearLocalsIdle
    /\ q_last = [op |-> "init", ret |-> 0]
    /\ late = {}

(***************************************************************************)
(* PlayerManager                                                           *)
(***************************************************************************)
\* [p.name for p in self.players.values()]
PlayerNames == {players[i].name : i \in 1..Len(players)}

\* the keys of self.players
PlayerIds == {players[i].id : i \in 1..Len(players)}

\* Player.id = str(uuid.uuid4()): the n-th Player object created gets the n-th id
PlayerIdOf(n) == "u" \o ToString(n)

\* a suffix taken from the number of players instead of a counter from 1
UniqueNameFrom_ByCount(original_name, name, counter) ==
    IF name \in PlayerNames
    THEN original_name \o "_" \o ToString(Len(players))
    ELSE name

\* the while loop of add_player: name, name_1, name_2, ... until not taken
RECURSIVE UniqueNameFrom(_, _, _)
UniqueNameFrom(original_name, name, counter) ==
    IF name \in PlayerNames
    THEN UniqueNameFrom(original_name,
                        original_name \o "_" \o ToString(counter), counter + 1)
    ELSE name

\* a capacity test that is off by one
SessionFull_OffByOne == Len(players) > max_players

\* the capacity test of add_player
SessionFull == Len(players) >= max_players

\* a collision test made once instead of in a loop
ResolveName_Once(name) ==
    IF name \in PlayerNames THEN name \o "_1" ELSE name

\* the unique-name step of add_player
ResolveName(name) == UniqueNameFrom(name, name, 1)

\* PlayerManager.add_player(name, connection); a socket object belongs to at
\* most one registered player
AddPlayerCall(name, connection) ==
    /\ next_id < MaxIds
    /\ \A i \in 1..Len(players) : players[i].connection # connection
    /\ IF SessionFull
       THEN /\ reg_ret' = [op |-> "add_player", arg |-> name, ret |-> None]
            /\ UNCHANGED <<players, players_by_connection, next_id>>
       ELSE LET player == [id |-> PlayerIdOf(next_id + 1),
                           name |-> ResolveName(name),
                           connection |-> connection]
            IN /\ players' = Append(players, player)
               /\ players_by_connection' =
                      [players_by_connection EXCEPT ![connection] = player.id]
               /\ next_id' = next_id + 1
               /\ reg_ret' = [op |-> "add_player", arg |-> name, ret |-> player.id]
    /\ UNCHANGED max_players

\* add_player called on its own
AddPlayer(name, connection) ==
    /\ AddPlayerCall(name, connection)
    /\ UNCHANGED <<histVars, queueVars, procVars, restVars>>

\* a removal that leaves self.players as it was
WithoutPlayer_Kept(player_id) == players

\* del self.players[player_id]
WithoutPlayer(player_id) == SelectSeq(players, LAMBDA p : p.id # player_id)

\* PlayerManager.remove_player(player_id)
RemovePlayerCall(player_id) ==
    /\ IF player_id \in PlayerIds
       THEN LET player == CHOOSE p \in Range(players) : p.id = player_id
            IN /\ players_by_connection' =
                      [players_by_connection EXCEPT ![player.connection] = None]
               /\ players' = WithoutPlayer(player_id)
               /\ reg_ret' = [op |-> "remove_player", arg |-> player_id, ret |-> "True"]
       ELSE /\ reg_ret' = [op |-> "remove_player", arg |-> player_id, ret |-> "False"]
            /\ UNCHANGED <<players, players_by_connection>>
    /\ UNCHANGED <<max_players, next_id>>

\* remove_player called on its own
RemovePlayer(player_id) ==
    /\ RemovePlayerCall(player_id)
    /\ UNCHANGED <<histVars, queueVars, procVars, restVars>>

InitRegistry ==
    /\ max_players \in 0..MaxPlayersCfg
    /\ players = <<>>
    /\ players_by_connection = [c \in Conns |-> None]
    /\ next_id = 0
    /\ reg_ret = [op |-> "init", arg |-> None, ret |-> None]
    /\ HistoryIdle
    /\ QueueIdle
    /\ RestIdle

NextRegistry ==
    \/ \E name \in NameInputs, connection \in Conns : AddPlayer(name, connection)
    \/ \E n \in 1..MaxIds : RemovePlayer(PlayerIdOf(n))

SpecRegistry == InitRegistry /\ [][NextRegistry]_vars

(***************************************************************************)
(* GameState: the bounded history                                          *)
(***************************************************************************)
\* (player_name, message, message_type) triples passed to add_to_history
HistoryInputs ==
    { <<"Sistema", "desperta", "system">>,
      <<"Ana", "olha em volta", "player">>,
      <<"Sistema", "Ana entrou no jogo", "system">> }

\* the entry add_to_history builds as its n-th call (session_id is the same
\* for all entries of a run)
HistoryEntry(n, player_name, message, message_type) ==
    [timestamp |-> n,
     player |-> player_name,
     message |-> message,
     type |-> message_type]

\* Python's s[-n:], which for n = 0 is s[0:], the whole list
LastSlice(s, n) ==
    IF n = 0 THEN s
    ELSE IF n > 0
         THEN SubSeq(s, (IF Len(s) - n < 0 THEN 0 ELSE Len(s) - n) + 1, Len(s))
         ELSE SubSeq(s, (IF -n > Len(s) THEN Len(s) ELSE -n) + 1, Len(s))

\* game_history after add_to_history appends entry and trims
HistoryAfter(history, entry) ==
    LET appended == Append(history, entry)
    IN IF Len(appended) > max_history
       THEN LastSlice(appended, max_history)
       ELSE appended

\* GameState.add_to_history(player_name, message, message_type)
AddToHistory(player_name, message, message_type) ==
    /\ history_count < max_history + MaxExtra
    /\ LET entry == HistoryEntry(history_count + 1, player_name, message, message_type)
       IN /\ game_history' = HistoryAfter(game_history, entry)
          /\ history_log' = Append(history_log, entry)
    /\ history_count' = history_count + 1
    /\ UNCHANGED max_history
    /\ UNCHANGED <<regVars, queueVars, procVars, restVars>>

\* GameState.__init__ up to game_history = [], with the configured cap
InitHistory ==
    /\ max_history \in 0..MaxHistoryCfg
    /\ game_history = <<>>
    /\ history_count = 0
    /\ history_log = <<>>
    /\ RegistryIdle
    /\ QueueIdle
    /\ RestIdle

NextHistory ==
    \E in \in HistoryInputs : AddToHistory(in[1], in[2], in[3])

SpecHistory == InitHistory /\ [][NextHistory]_vars

(***************************************************************************)
(* ActionQueue                                                             *)
(***************************************************************************)
\* PlayerAction.result = None
NoResult == [is_none |-> TRUE]

\* PlayerAction.__init__
NewAction(player_id, action_type, content, timestamp) ==
    [player_id |-> player_id,
     action_type |-> action_type,
     content |-> content,
     timestamp |-> timestamp,
     processed |-> FALSE,
     result |-> NoResult,
     conflicts |-> <<>>]

\* a read that returns every entry of the list
Unprocessed_All(list) == list

\* [action for action in list if not action.processed]
Unprocessed(list) == SelectSeq(list, LAMBDA a : ~heap[a].processed)

\* a compaction whose test is inverted
Compacted_Inverted(list) == SelectSeq(list, LAMBDA a : heap[a].processed)

\* the list clear_processed_actions builds
Compacted(list) == SelectSeq(list, LAMBDA a : ~heap[a].processed)

\* a validation that lets every type through
ValidActionType_Any(action_type) == TRUE

\* action_type in ['fazer', 'dizer', 'historia']
ValidActionType(action_type) == action_type \in ActionTypes

\* a pointer that follows every submission
StoryContextAfter_Always(action_type, action) == action

\* if action_type == 'historia': self.last_story_context = action
StoryContextAfter(action_type, action) ==
    IF action_type = "historia" THEN action ELSE last_story_context

\* ActionQueue.add_action(player_id, action_type, content): ValueError for an
\* invalid type; tick is how far datetime.now() has moved since its last
\* reading
AddActionWithin(limit, player_id, action_type, tick) ==
    /\ Len(heap) < limit
    /\ IF ~ValidActionType(action_type)
       THEN /\ q_last' = [op |-> "add", ret |-> 0, arg |-> action_type, raised |-> TRUE]
            /\ UNCHANGED <<heap, actions, last_story_context, clock>>
       ELSE /\ LET action == Len(heap) + 1
               IN /\ heap' = Append(heap, NewAction(player_id, action_type,
                                                    ContentOf(action), clock + tick))
                  /\ last_story_context' = StoryContextAfter(action_type, action)
                  /\ actions' = Append(actions, action)
            /\ clock' = clock + tick
            /\ q_last' = [op |-> "add", ret |-> 0, arg |-> action_type, raised |-> FALSE]
    /\ UNCHANGED <<processing_order, tie_breaker>>
    /\ UNCHANGED <<processing_history, ai_calls, fl, cl, late, fl2>>

\* add_action, as many times as the runs explore
AddActionCall(player_id, action_type, tick) ==
    AddActionWithin(MaxActions, player_id, action_type, tick)

\* add_action called on its own
AddAction(player_id, action_type, tick) ==
    /\ AddActionCall(player_id, action_type, tick)
    /\ UNCHANGED <<regVars, histVars, restVars>>

\* a caller of get_unprocessed_actions takes the list; called again right
\* after, it also keeps the list it got before
GetUnprocessedActions ==
    /\ q_last' = [op |-> "get_unprocessed", ret |-> 0,
                  result |-> Unprocessed(actions),
                  again |-> q_last.op = "get_unprocessed",
                  before |-> IF q_last.op = "get_unprocessed" THEN q_last.result ELSE <<>>]
    /\ UNCHANGED <<processing_history, ai_calls, fl, cl, late, fl2>>
    /\ UNCHANGED <<regVars, histVars, queueVars, restVars>>

\* clear_processed_actions, line 89: initial_count = len(self.actions)
ClearCount ==
    /\ cl.pc = "idle"
    /\ cl' = [cl EXCEPT !.pc = "filter",
                        !.initial_count = Len(actions),
                        !.before = actions,
                        !.base = Len(heap),
                        !.prev_removed = IF q_last.op = "clear" THEN q_last.ret ELSE -1]
    /\ UNCHANGED <<processing_history, ai_calls, fl, q_last, late, fl2>>
    /\ UNCHANGED <<regVars, histVars, queueVars, restVars>>

\* clear_processed_actions, line 90, right-hand side: the list comprehension
ClearFilter ==
    /\ cl.pc = "filter"
    /\ cl' = [cl EXCEPT !.pc = "assign", !.kept = Compacted(actions)]
    /\ UNCHANGED <<processing_history, ai_calls, fl, q_last, late, fl2>>
    /\ UNCHANGED <<regVars, histVars, queueVars, restVars>>

\* a compaction that also forgets the story context it removes
ClearAssign_DropsContext ==
    /\ cl.pc = "assign"
    /\ actions' = cl.kept
    /\ last_story_context' =
           IF last_story_context \in Range(cl.kept) THEN last_story_context ELSE 0
    /\ cl' = [cl EXCEPT !.pc = "done", !.ret = cl.initial_count - Len(cl.kept)]
    /\ UNCHANGED <<heap, processing_order, tie_breaker, clock>>
    /\ UNCHANGED <<processing_history, ai_calls, fl, q_last, late, fl2>>
    /\ UNCHANGED <<regVars, histVars, restVars>>

\* clear_processed_actions, lines 90-96: the assignment to self.actions and
\* removed_count
ClearAssign ==
    /\ cl.pc = "assign"
    /\ actions' = cl.kept
    /\ cl' = [cl EXCEPT !.pc = "done", !.ret = cl.initial_count - Len(cl.kept)]
    /\ UNCHANGED <<heap, last_story_context, processing_order, tie_breaker, clock>>
    /\ UNCHANGED <<processing_history, ai_calls, fl, q_last, late, fl2>>
    /\ UNCHANGED <<regVars, histVars, restVars>>

\* the caller takes the count
ClearReturn ==
    /\ cl.pc = "done"
    /\ cl' = ClearLocalsIdle
    /\ q_last' = [op |-> "clear", ret |-> cl.ret]
    /\ UNCHANGED <<processing_history, ai_calls, fl, late, fl2>>
    /\ UNCHANGED <<regVars, histVars, queueVars, restVars>>

(***************************************************************************)
(* ActionProcessor: the processing order                                   *)
(***************************************************************************)
\* Python's < on tuples of numbers of one length
RECURSIVE LexLess(_, _)
LexLess(a, b) ==
    IF a = <<>> \/ b = <<>> THEN FALSE
    ELSE IF Head(a) # Head(b) THEN Head(a) < Head(b)
    ELSE LexLess(Tail(a), Tail(b))

\* x put before the elements of equal key: a sort that is not stable
InsertByKey_BeforeTies(s, x, key) ==
    LET k == Cardinality({j \in 1..Len(s) : LexLess(key[s[j]], key[x])})
    IN SubSeq(s, 1, k) \o <<x>> \o SubSeq(s, k + 1, Len(s))

\* x put into the sorted list s behind every element whose key is not greater
InsertByKey(s, x, key) ==
    LET k == Cardinality({j \in 1..Len(s) : ~LexLess(key[x], key[s[j]])})
    IN SubSeq(s, 1, k) \o <<x>> \o SubSeq(s, k + 1, Len(s))

\* Python's sorted(s, key=...): ascending and stable
RECURSIVE SortedByKey(_, _)
SortedByKey(s, key) ==
    IF s = <<>> THEN <<>>
    ELSE InsertByKey(SortedByKey(SubSeq(s, 1, Len(s) - 1), key), s[Len(s)], key)

\* a shuffle that draws each place from the whole list
Shuffles_WithRepeats(s) == [1..Len(s) -> Range(s)]

\* the orders random.shuffle can leave a list in
Shuffles(s) ==
    {p \in [1..Len(s) -> Range(s)] : Range(p) = Range(s)}

\* type_priority = {'historia': 3, 'fazer': 2, 'dizer': 1}
TypePriority(action_type) ==
    CASE action_type = "historia" -> 3
      [] action_type = "fazer" -> 2
      [] action_type = "dizer" -> 1

\* the sort key of the 'priority' order
PriorityKey(a) == <<TypePriority(heap[a].action_type), heap[a].timestamp>>

\* the first branch of _sort_actions_for_processing; shuffled is what
\* random.shuffle returns in the third
PrimaryOrder(list, shuffled) ==
    IF processing_order = "chronological"
    THEN SortedByKey(list, [a \in Range(list) |-> <<heap[a].timestamp>>])
    ELSE IF processing_order = "priority"
    THEN SortedByKey(list, [a \in Range(list) |-> PriorityKey(a)])
    ELSE shuffled

\* player_order: the 0-based place of each player's first action
PlayerOrder(sorted) ==
    [p \in {heap[a].player_id : a \in Range(sorted)} |->
        (CHOOSE j \in 1..Len(sorted) :
            /\ heap[sorted[j]].player_id = p
            /\ \A k \in 1..(j - 1) : heap[sorted[k]].player_id # p) - 1]

\* ActionProcessor._sort_actions_for_processing(actions)
SortForProcessing(list, shuffled) ==
    LET sorted == PrimaryOrder(list, shuffled)
    IN IF tie_breaker = "player_order"
       THEN SortedByKey(sorted,
                [a \in Range(sorted) |->
                    <<heap[a].timestamp, PlayerOrder(sorted)[heap[a].player_id]>>])
       ELSE sorted

(***************************************************************************)
(* ActionProcessor: one action                                             *)
(***************************************************************************)
\* a reply used as it comes
OrFallback_Missing(ai_response, fallback) == ai_response

\* if not ai_response: ai_response = fallback
OrFallback(ai_response, fallback) ==
    IF ai_response = None \/ ai_response = "" THEN fallback ELSE ai_response

\* the fallback strings of _process_fazer_action, _process_dizer_action and
\* _process_historia_action
FallbackText(action_type, content) ==
    CASE action_type = "fazer" ->
             "A acao '" \o content \o "' e executada com sucesso moderado."
      [] action_type = "dizer" ->
             "Suas palavras ecoam pela area, chamando a atencao de alguns NPCs."
      [] action_type = "historia" ->
             "O elemento '" \o content \o "' e integrado a narrativa, expandindo o mundo da historia."

\* the fallback string of _generate_final_summary
FallbackSummary(n) ==
    "Apos processar " \o ToString(n) \o " acoes, a situacao evoluiu significativamente."

\* ActionProcessor._generate_game_state_updates_for_action(action, ai_response)
UpdatesFor(a, ai_response) ==
    <<[type |-> "add_to_history",
       player_id |-> heap[a].player_id,
       action_type |-> heap[a].action_type,
       content |-> heap[a].content,
       ai_response |-> ai_response,
       timestamp |-> heap[a].timestamp]>>
    \o (IF heap[a].action_type \in {"fazer", "historia"}
        THEN <<[type |-> "update_world_state",
                player_id |-> None,
                action_type |-> None,
                content |-> heap[a].content,
                ai_response |-> None,
                timestamp |-> heap[a].timestamp]>>
        ELSE <<>>)

\* a processor that fails the actions of players who are no longer registered
SingleResult_RegisteredOnly(a, ai_response) ==
    LET text == OrFallback(ai_response,
                           FallbackText(heap[a].action_type, heap[a].content))
    IN [success |-> heap[a].player_id \in PlayerIds,
        result |-> text,
        action_outcome |-> "success",
        game_state_updates |-> UpdatesFor(a, text),
        action_type |-> heap[a].action_type,
        player_id |-> heap[a].player_id,
        content |-> heap[a].content,
        timestamp |-> heap[a].timestamp]

\* ActionProcessor._process_single_action(action, ...), given what
\* generate_response returned: the typed result plus the action's metadata
SingleResult(a, ai_response) ==
    LET text == OrFallback(ai_response,
                           FallbackText(heap[a].action_type, heap[a].content))
    IN [success |-> TRUE,
        result |-> text,
        action_outcome |-> "success",
        game_state_updates |-> UpdatesFor(a, text),
        action_type |-> heap[a].action_type,
        player_id |-> heap[a].player_id,
        content |-> heap[a].content,
        timestamp |-> heap[a].timestamp]

\* ActionProcessor._apply_game_state_updates(updates): the history and the
\* number of add_to_history calls afterwards
RECURSIVE ApplyUpdates(_, _, _)
ApplyUpdates(updates, history, count) ==
    IF updates = <<>> THEN [history |-> history, count |-> count]
    ELSE LET update == Head(updates)
         IN IF update.type = "add_to_history"
            THEN ApplyUpdates(Tail(updates),
                     HistoryAfter(history,
                         HistoryEntry(count + 1, update.player_id,
                                      update.action_type \o ": " \o update.content,
                                      "player_action")),
                     count + 1)
            ELSE ApplyUpdates(Tail(updates), history, count)

(***************************************************************************)
(* ActionProcessor.process_all_actions, step by step                       *)
(***************************************************************************)
\* a flush that goes on with an empty snapshot
NothingToProcess_Never(unprocessed_actions) == FALSE

\* if not unprocessed_actions
NothingToProcess(unprocessed_actions) == unprocessed_actions = <<>>

\* marking whatever is unprocessed by now instead of the snapshot
MarkTargets_Requery == Unprocessed(actions)

\* marking only the first action of the snapshot
MarkTargets_FirstOnly == SubSeq(fl.unprocessed_actions, 1, 1)

\* for action in unprocessed_actions: action.processed = True
MarkTargets == fl.unprocessed_actions

\* a flush that reads last_story_context again at every call
ContextUsed_Reread(locals) ==
    IF last_story_context # 0 THEN heap[last_story_context].content ELSE None

\* lines 153 and 178: the story_context argument is the local read at line 142
ContextUsed(locals) == locals.story_context

\* lines 129-139: the snapshot, and the early return when it is empty
FlushStartCall ==
    /\ fl.pc = "idle"
    /\ LET unprocessed_actions == Unprocessed(actions)
           entered == [fl EXCEPT !.unprocessed_actions = unprocessed_actions,
                                 !.pending0 = {a \in Range(actions) : heap[a].processed = FALSE},
                                 !.base = Len(heap)]
       IN IF NothingToProcess(unprocessed_actions)
          THEN fl' = [entered EXCEPT
                         !.pc = "done",
                         !.ret = [success |-> TRUE,
                                  message |-> "Nenhuma acao para processar",
                                  processed_count |-> 0,
                                  results |-> <<>>]]
          ELSE fl' = [entered EXCEPT !.pc = "context"]
    /\ UNCHANGED <<processing_history, ai_calls, cl, q_last, late, fl2>>
    /\ UNCHANGED queueVars

\* process_all_actions entered on its own
FlushStart ==
    /\ FlushStartCall
    /\ UNCHANGED <<regVars, histVars, restVars>>

\* lines 141-149: _get_story_context and _sort_actions_for_processing
FlushContext ==
    /\ fl.pc = "context"
    /\ \E shuffled \in (IF processing_order = "random"
                        THEN Shuffles(fl.unprocessed_actions)
                        ELSE {fl.unprocessed_actions}) :
          fl' = [fl EXCEPT
                    !.pc = "loop",
                    !.story_context =
                        IF last_story_context # 0
                        THEN heap[last_story_context].content
                        ELSE None,
                    !.sorted_actions = SortForProcessing(fl.unprocessed_actions, shuffled),
                    !.i = 1]
    /\ UNCHANGED <<processing_history, ai_calls, cl, q_last, late, fl2>>
    /\ UNCHANGED <<regVars, histVars, queueVars, restVars>>

\* lines 151-158: one turn of the loop, with the call to generate_response
FlushProcessOne ==
    /\ fl.pc = "loop"
    /\ \E ai_response \in AIResponses :
          LET a == fl.sorted_actions[fl.i]
              result == SingleResult(a, ai_response)
          IN /\ heap' = [heap EXCEPT ![a].result = result]
             /\ fl' = [fl EXCEPT
                          !.results = Append(@, result),
                          !.game_state_updates =
                              IF result.success THEN @ \o result.game_state_updates ELSE @,
                          !.i = @ + 1,
                          !.ai_text = @ \/ (ai_response # None /\ ai_response # ""),
                          !.contexts = Append(@, ContextUsed(fl)),
                          !.pc = IF fl.i = Len(fl.sorted_actions) THEN "apply" ELSE "loop"]
    /\ ai_calls' = ai_calls + 1
    /\ UNCHANGED <<actions, last_story_context, processing_order, tie_breaker, clock>>
    /\ UNCHANGED <<processing_history, cl, q_last, late, fl2>>
    /\ UNCHANGED <<regVars, histVars, restVars>>

\* lines 170-171: _apply_game_state_updates
FlushApply ==
    /\ fl.pc = "apply"
    /\ LET applied == ApplyUpdates(fl.game_state_updates, game_history, history_count)
       IN /\ game_history' = applied.history
          /\ history_count' = applied.count
    /\ fl' = [fl EXCEPT !.pc = "mark"]
    /\ UNCHANGED <<max_history, history_log>>
    /\ UNCHANGED <<processing_history, ai_calls, cl, q_last, late, fl2>>
    /\ UNCHANGED <<regVars, queueVars, restVars>>

\* lines 173-175: the snapshot's actions are marked processed
FlushMark ==
    /\ fl.pc = "mark"
    /\ heap' = [a \in DOMAIN heap |->
                   IF a \in Range(MarkTargets)
                   THEN [heap[a] EXCEPT !.processed = TRUE]
                   ELSE heap[a]]
    /\ fl' = [fl EXCEPT !.pc = "summary"]
    /\ UNCHANGED <<actions, last_story_context, processing_order, tie_breaker, clock>>
    /\ UNCHANGED <<processing_history, ai_calls, cl, q_last, late, fl2>>
    /\ UNCHANGED <<regVars, histVars, restVars>>

\* lines 177-194: _generate_final_summary, the processing_history record and
\* the return value
FlushSummary ==
    /\ fl.pc = "summary"
    /\ \E ai_summary \in AIResponses :
          LET final_summary == OrFallback(ai_summary, FallbackSummary(Len(fl.results)))
          IN /\ processing_history' =
                    Append(processing_history,
                           [timestamp |-> clock,
                            actions_processed |-> Len(fl.unprocessed_actions),
                            results |-> fl.results,
                            summary |-> final_summary])
             /\ fl' = [fl EXCEPT
                          !.pc = "done",
                          !.ai_text = @ \/ (ai_summary # None /\ ai_summary # ""),
                          !.contexts = Append(@, ContextUsed(fl)),
                          !.ret = [success |-> TRUE,
                                   processed_count |-> Len(fl.unprocessed_actions),
                                   results |-> fl.results,
                                   final_summary |-> final_summary,
                                   game_state_updates |-> fl.game_state_updates]]
    /\ ai_calls' = ai_calls + 1
    /\ UNCHANGED <<cl, q_last, late, fl2>>
    /\ UNCHANGED <<regVars, histVars, queueVars, restVars>>

\* the caller takes the result
FlushReturnCall ==
    /\ fl.pc = "done"
    /\ fl' = FlushLocalsIdle
    /\ late' = {a \in 1..Len(heap) : a > fl.base}
    /\ q_last' = [op |-> "flush", ret |-> fl.ret.processed_count]
    /\ UNCHANGED <<processing_history, ai_calls, cl, fl2>>
    /\ UNCHANGED queueVars

\* process_all_actions returning on its own
FlushReturn ==
    /\ FlushReturnCall
    /\ UNCHANGED <<regVars, histVars, restVars>>

(***************************************************************************)
(* Specifications of the queue                                             *)
(***************************************************************************)
\* GameState.__init__ has appended the starting scenario
HistoryStarted ==
    /\ max_history = MaxHistoryCfg
    /\ game_history = <<HistoryEntry(1, "Sistema", "desperta", "system")>>
    /\ history_count = 1
    /\ history_log = <<>>

\* ActionQueue.__init__ and ActionProcessor.__init__, with the two policy
\* attributes set to any of their values
InitQueue ==
    /\ heap = <<>>
    /\ actions = <<>>
    /\ last_story_context = 0
    /\ processing_order \in Orders
    /\ tie_breaker \in TieBreakers
    /\ clock = 0
    /\ processing_history = <<>>
    /\ ai_calls = 0
    /\ fl = FlushLocalsIdle
    /\ fl2 = FlushLocalsIdle
    /\ cl = ClearLocalsIdle
    /\ q_last = [op |-> "init", ret |-> 0]
    /\ late = {}
    /\ RegistryIdle
    /\ HistoryStarted
    /\ RestIdle

\* ActionQueue.__init__ and ActionProcessor.__init__ as the server leaves
\* them: 'chronological' and 'timestamp'
InitServerQueue ==
    /\ QueueIdle
    /\ RestIdle
    /\ RegistryIdle
    /\ HistoryStarted

\* no thread is inside a queue or processor method
NoCallRunning == fl.pc = "idle" /\ cl.pc = "idle"

\* the calls of a single thread: each starts when the last has returned
OneAddAction(player_id, action_type, tick) ==
    NoCallRunning /\ AddAction(player_id, action_type, tick)

OneClearCount == NoCallRunning /\ ClearCount

OneGetUnprocessed == NoCallRunning /\ GetUnprocessedActions

OneFlushStart == NoCallRunning /\ FlushStart

NextQueue ==
    \/ \E player_id \in Submitters, action_type \in SubmittedTypes, tick \in {0, 1} :
          OneAddAction(player_id, action_type, tick)
    \/ OneGetUnprocessed
    \/ OneClearCount
    \/ ClearFilter
    \/ ClearAssign
    \/ ClearReturn
    \/ OneFlushStart
    \/ FlushContext
    \/ FlushProcessOne
    \/ FlushApply
    \/ FlushMark
    \/ FlushSummary
    \/ FlushReturn

\* queue and processor driven by one thread
SpecQueue == InitQueue /\ [][NextQueue]_vars

\* a submission that does not overlap a compaction
SubmitAction(player_id, action_type, tick) ==
    cl.pc = "idle" /\ AddAction(player_id, action_type, tick)

NextFlushSubmit ==
    \/ \E player_id \in Submitters, action_type \in ActionTypes, tick \in {0, 1} :
          SubmitAction(player_id, action_type, tick)
    \/ ClearCount
    \/ ClearFilter
    \/ ClearAssign
    \/ ClearReturn
    \/ FlushStart
    \/ FlushContext
    \/ FlushProcessOne
    \/ FlushApply
    \/ FlushMark
    \/ FlushSummary
    \/ FlushReturn

\* connection threads that submit at any step of another thread's flush
SpecFlushSubmit == InitServerQueue /\ [][NextFlushSubmit]_vars

\* a compaction that does not overlap a flush
CompactStart == fl.pc = "idle" /\ ClearCount

NextCompactSubmit ==
    \/ \E player_id \in Submitters, action_type \in ActionTypes, tick \in {0, 1} :
          AddAction(player_id, action_type, tick)
    \/ CompactStart
    \/ ClearFilter
    \/ ClearAssign
    \/ ClearReturn
    \/ OneFlushStart
    \/ FlushContext
    \/ FlushProcessOne
    \/ FlushApply
    \/ FlushMark
    \/ FlushSummary
    \/ FlushReturn

\* connection threads that submit at any step of another thread's compaction
SpecCompactSubmit == InitServerQueue /\ [][NextCompactSubmit]_vars

\* the add_action calls that fill a queue: submitter, type, and how far the
\* clock moved before each
Batches ==
    UNION {[1..n -> [player_id : Submitters, action_type : ActionTypes, tick : {0, 1}]] :
              n \in 0..MaxBatch}

\* datetime.now() at the n-th submission of the batch
RECURSIVE ClockAt(_, _)
ClockAt(batch, n) == IF n = 0 THEN 0 ELSE ClockAt(batch, n - 1) + batch[n].tick

\* the last 'historia' submission of the batch, 0 when it has none
LastStory(batch) ==
    LET stories == {a \in 1..Len(batch) : batch[a].action_type = "historia"}
    IN IF stories = {} THEN 0 ELSE CHOOSE a \in stories : \A b \in stories : b <= a

\* a queue filled by a batch of submissions, none processed yet, under any
\* setting of the two policy attributes
InitSort ==
    /\ \E batch \in Batches :
          /\ heap = [a \in 1..Len(batch) |->
                        NewAction(batch[a].player_id, batch[a].action_type,
                                  ContentOf(a), ClockAt(batch, a))]
          /\ actions = [a \in 1..Len(batch) |-> a]
          /\ last_story_context = LastStory(batch)
          /\ clock = ClockAt(batch, Len(batch))
    /\ processing_order \in Orders
    /\ tie_breaker \in TieBreakerSettings
    /\ processing_history = <<>>
    /\ ai_calls = 0
    /\ fl = FlushLocalsIdle
    /\ fl2 = FlushLocalsIdle
    /\ cl = ClearLocalsIdle
    /\ q_last = [op |-> "add", ret |-> 0]
    /\ late = {}
    /\ RestIdle
    /\ RegistryIdle
    /\ HistoryStarted

NextSort ==
    \/ OneFlushStart
    \/ FlushContext

\* a flush up to the order it will process its snapshot in
SpecSort == InitSort /\ [][NextSort]_vars
(***************************************************************************)
(* GameState: locations, quests, save and load                             *)
(***************************************************************************)
Locations == {"Taverna", "Floresta"}

\* quest_data as create_dynamic_quest builds it; target_location is None
\* unless the caller names one
QuestInputs ==
    { [title |-> "Missao de Combat", objectives |-> <<"derrotar">>,
       target_location |-> None, status |-> "available"],
      [title |-> "Missao de Escort", objectives |-> <<"proteger", "chegar">>,
       target_location |-> "Floresta", status |-> "available"] }

\* self.player_locations.get(player_id)
LocationOf(player_id) ==
    IF player_id \in DOMAIN player_locations
    THEN player_locations[player_id]
    ELSE None

\* the dict d after d[key] = value
DictPut(d, key, value) ==
    [k \in DOMAIN d \cup {key} |-> IF k = key THEN value ELSE d[k]]

\* the dict d after del d[key]
DictDel(d, key) == [k \in DOMAIN d \ {key} |-> d[k]]

\* a call of add_to_history made from inside another method
HistoryPut(player_name, message, message_type) ==
    /\ game_history' =
           HistoryAfter(game_history,
                        HistoryEntry(history_count + 1, player_name, message, message_type))
    /\ history_count' = history_count + 1
    /\ UNCHANGED <<max_history, history_log>>

\* the same call in a run that makes a bounded number of them
HistoryAppended(player_name, message, message_type) ==
    /\ history_count < MaxGameEvents
    /\ HistoryPut(player_name, message, message_type)

\* GameState.set_player_location(player_id, location_name)
SetPlayerLocationCall(player_id, location_name) ==
    LET old_location == LocationOf(player_id)
    IN /\ player_locations' = DictPut(player_locations, player_id, location_name)
       /\ IF old_location # location_name
          THEN HistoryPut("Sistema",
                   "Jogador mudou de "
                       \o (IF old_location = None THEN "local desconhecido" ELSE old_location)
                       \o " para " \o location_name,
                   "movement")
          ELSE UNCHANGED histVars

\* set_player_location called on its own
SetPlayerLocation(player_id, location_name) ==
    /\ history_count < MaxGameEvents
    /\ SetPlayerLocationCall(player_id, location_name)
    /\ UNCHANGED <<active_quests, completed_quests, save_file, saved, fresh>>
    /\ UNCHANGED <<regVars, queueVars, procVars, netVars, moreVars>>

\* GameState.add_quest(quest_data)
AddQuest(quest_data) ==
    /\ Len(active_quests) + Len(completed_quests) < MaxQuests
    /\ active_quests' =
           Append(active_quests,
                  [id |-> "quest_" \o ToString(Len(active_quests) + 1),
                   title |-> quest_data.title,
                   objectives |-> quest_data.objectives,
                   target_location |-> quest_data.target_location,
                   status |-> "active"])
    /\ HistoryAppended("Sistema", "Nova missao disponivel: " \o quest_data.title, "quest")
    /\ UNCHANGED <<player_locations, completed_quests, save_file, saved, fresh>>
    /\ UNCHANGED <<regVars, queueVars, procVars, netVars, moreVars>>

\* GameState.complete_quest(quest_id, player_name), when an active quest has
\* the id: the first such quest moves to completed_quests
CompleteQuest(quest_id, player_name) ==
    /\ \E i \in 1..Len(active_quests) : active_quests[i].id = quest_id
    /\ LET i == CHOOSE k \in 1..Len(active_quests) :
                    /\ active_quests[k].id = quest_id
                    /\ \A j \in 1..(k - 1) : active_quests[j].id # quest_id
           quest == active_quests[i]
       IN /\ completed_quests' =
                 Append(completed_quests,
                        [id |-> quest.id,
                         title |-> quest.title,
                         objectives |-> quest.objectives,
                         target_location |-> quest.target_location,
                         status |-> "completed",
                         completed_by |-> player_name])
          /\ active_quests' =
                 [k \in 1..(Len(active_quests) - 1) |->
                     IF k < i THEN active_quests[k] ELSE active_quests[k + 1]]
          /\ HistoryAppended("Sistema",
                 "Missao completada por " \o player_name \o ": " \o quest.title, "quest")
    /\ UNCHANGED <<player_locations, save_file, saved, fresh>>
    /\ UNCHANGED <<regVars, queueVars, procVars, netVars, moreVars>>

(***************************************************************************)
(* json.dump and json.load on the values the four saved fields hold:       *)
(* str, None, list of str, dict with str keys                              *)
(***************************************************************************)
JsonString(s) == [json |-> "string", text |-> s]

JsonNull == [json |-> "null", text |-> ""]

\* a str or None as JSON
DumpScalar(v) == IF v = None THEN JsonNull ELSE JsonString(v)

\* loading null as the empty string instead of None
LoadScalar_NullAsText(j) == j.text

\* a JSON string or null as a Python value
LoadScalar(j) == IF j.json = "null" THEN None ELSE j.text

\* a dict with str keys whose values are str, None or (under 'objectives')
\* a list of str; a history entry's timestamp is always a str
DumpDict(d) ==
    [k \in DOMAIN d |->
        CASE k = "objectives" -> [i \in 1..Len(d[k]) |-> JsonString(d[k][i])]
          [] k = "timestamp" -> JsonString(d[k])
          [] OTHER -> DumpScalar(d[k])]

LoadDict(j) ==
    [k \in DOMAIN j |->
        IF k = "objectives"
        THEN [i \in 1..Len(j[k]) |-> LoadScalar(j[k][i])]
        ELSE LoadScalar(j[k])]

\* a list of dicts
DumpList(list) == [i \in 1..Len(list) |-> DumpDict(list[i])]

LoadList(j) == [i \in 1..Len(j) |-> LoadDict(j[i])]

\* game_data of save_game_state, the four fields read back by load_game_state
\* and the world, which json.dump writes as str(self.world)
GameData ==
    [world |-> JsonString("<World object>"),
     game_history |-> DumpList(game_history),
     player_locations |-> DumpDict(player_locations),
     active_quests |-> DumpList(active_quests),
     completed_quests |-> DumpList(completed_quests)]

SaveOutcomes == {"written", "open_failed", "write_failed"}

\* GameState.save_game_state(filepath): metadata['last_save'] is assigned, then
\* the file is written, or open() raises and the file stays as it was, or the
\* write raises and leaves a truncated file; the except clause swallows
\* either error
SaveGameStateCall(outcome) ==
    /\ outcome \in SaveOutcomes
    /\ last_save' = [is_none |-> FALSE, at |-> clock]
    /\ CASE outcome = "written" ->
              /\ save_file' = [exists |-> TRUE, valid |-> TRUE, doc |-> GameData]
              /\ saved' = [game_history |-> game_history,
                           player_locations |-> player_locations,
                           active_quests |-> active_quests,
                           completed_quests |-> completed_quests]
         [] outcome = "open_failed" ->
              UNCHANGED <<save_file, saved>>
         [] outcome = "write_failed" ->
              /\ save_file' = [exists |-> TRUE, valid |-> FALSE, doc |-> <<>>]
              /\ UNCHANGED saved
    /\ UNCHANGED <<player_locations, active_quests, completed_quests, fresh>>

\* save_game_state called on its own
SaveGameState(outcome) ==
    /\ SaveGameStateCall(outcome)
    /\ UNCHANGED <<sessions, current_session, total_sessions, gm, last_activity, config,
                   autosave>>
    /\ UNCHANGED <<regVars, histVars, queueVars, procVars, netVars>>

\* GameState(): a fresh instance, its history holding the starting scenario
NewGameState ==
    /\ fresh.pc = "none"
    /\ fresh' = [pc |-> "new",
                 game_history |->
                     <<HistoryEntry(history_count + 1, "Sistema", "desperta", "system")>>,
                 player_locations |-> <<>>,
                 active_quests |-> <<>>,
                 completed_quests |-> <<>>,
                 source |-> <<>>]
    /\ UNCHANGED <<player_locations, active_quests, completed_quests, save_file, saved>>
    /\ UNCHANGED <<regVars, histVars, queueVars, procVars, netVars, moreVars>>

\* load_game_state(filepath) on the fresh instance; a missing or truncated
\* file raises inside the try and the instance stays as it was
LoadGameState ==
    /\ fresh.pc = "new"
    /\ IF save_file.exists /\ save_file.valid
       THEN fresh' = [pc |-> "loaded",
                      game_history |-> LoadList(save_file.doc.game_history),
                      player_locations |-> LoadDict(save_file.doc.player_locations),
                      active_quests |-> LoadList(save_file.doc.active_quests),
                      completed_quests |-> LoadList(save_file.doc.completed_quests),
                      source |-> saved]
       ELSE fresh' = [fresh EXCEPT !.pc = "load_failed"]
    /\ UNCHANGED <<player_locations, active_quests, completed_quests, save_file, saved>>
    /\ UNCHANGED <<regVars, histVars, queueVars, procVars, netVars, moreVars>>

\* the second instance is dropped
DropGameState ==
    /\ fresh.pc \in {"loaded", "load_failed"}
    /\ fresh' = NoFresh
    /\ UNCHANGED <<player_locations, active_quests, completed_quests, save_file, saved>>
    /\ UNCHANGED <<regVars, histVars, queueVars, procVars, netVars, moreVars>>

InitSave ==
    /\ HistoryStarted
    /\ GameIdle
    /\ NetIdle
    /\ MoreIdle
    /\ RegistryIdle
    /\ QueueIdle

NextSave ==
    \/ \E p \in Submitters, l \in Locations : SetPlayerLocation(p, l)
    \/ \E q \in QuestInputs : AddQuest(q)
    \/ \E n \in 1..MaxQuests, p \in NameInputs :
          CompleteQuest("quest_" \o ToString(n), p)
    \/ \E outcome \in SaveOutcomes : SaveGameState(outcome)
    \/ NewGameState
    \/ LoadGameState
    \/ DropGameState

SpecSave == InitSave /\ [][NextSave]_vars

(***************************************************************************)
(* GameState: sessions                                                     *)
(***************************************************************************)
\* session_name arguments; None stands for the default
SessionNames == {None, "Sessao Principal"}

\* a previous session left as it was
PreviousEnded_Never == sessions

\* if self.current_session.is_active: self.current_session.end_session()
PreviousEnded ==
    IF sessions[current_session].is_active
    THEN [sessions EXCEPT ![current_session].is_active = FALSE]
    ELSE sessions

\* GameState.start_new_session(session_name)
StartNewSession(session_name) ==
    /\ history_count < MaxGameEvents
    /\ LET name == IF session_name = None
                   THEN "Sessao " \o ToString(total_sessions + 1)
                   ELSE session_name
       IN sessions' = Append(PreviousEnded, [session_name |-> name, is_active |-> TRUE])
    /\ current_session' = Len(sessions) + 1
    /\ total_sessions' = total_sessions + 1
    /\ player_locations' = <<>>
    /\ active_quests' = <<>>
    /\ HistoryPut("Sistema", "desperta", "system")
    /\ UNCHANGED <<completed_quests, save_file, saved, fresh>>
    /\ UNCHANGED <<gm, last_activity, config, last_save, autosave>>
    /\ UNCHANGED <<regVars, queueVars, procVars, netVars>>

\* GameState.__init__
InitSession ==
    /\ HistoryStarted
    /\ GameIdle
    /\ NetIdle
    /\ MoreIdle
    /\ RegistryIdle
    /\ QueueIdle

NextSession ==
    \/ \E p \in Submitters, l \in Locations : SetPlayerLocation(p, l)
    \/ \E q \in QuestInputs : AddQuest(q)
    \/ \E n \in 1..MaxQuests, p \in NameInputs :
          CompleteQuest("quest_" \o ToString(n), p)
    \/ \E session_name \in SessionNames : StartNewSession(session_name)

SpecSession == InitSession /\ [][NextSession]_vars
(***************************************************************************)
(* PlayerManager.broadcast_message: the loop over self.players.values()    *)
(***************************************************************************)
\* a send failure that escapes send_message
SendRaises_Uncaught(ok) == ~ok

\* Player.send_message catches every exception of sendall and returns False
SendRaises(ok) == FALSE

\* the thread of client c enters broadcast_message(message, exclude_player):
\* the dict iterator notes the size of self.players
BroadcastStarted(c, exclude_player) ==
    it' = [it EXCEPT ![c] =
              [outcome |-> "running",
               size |-> Len(players),
               exclude_player |-> exclude_player,
               passed |-> {},
               attempts |-> <<>>,
               targets |-> PlayerIds \ {exclude_player}]]

\* the positions of players the iterator of c has not passed
NotPassed(c) == {i \in 1..Len(players) : players[i].id \notin it[c].passed}

\* one turn of the for loop: the iterator raises RuntimeError when the dict
\* changed size since the loop began, stops after the last entry, or yields
\* the next player, to whom the message is sent unless it is exclude_player
BroadcastNext(c) ==
    /\ it[c].outcome = "running"
    /\ IF Len(players) # it[c].size
       THEN it' = [it EXCEPT ![c].outcome = "RuntimeError"]
       ELSE IF NotPassed(c) = {}
       THEN it' = [it EXCEPT ![c].outcome = "stop"]
       ELSE LET i == CHOOSE k \in NotPassed(c) : \A j \in NotPassed(c) : k <= j
                player == players[i]
            IN IF player.id = it[c].exclude_player
               THEN it' = [it EXCEPT ![c].passed = @ \cup {player.id}]
               ELSE \E ok \in BOOLEAN :
                      it' = [it EXCEPT
                               ![c].passed = @ \cup {player.id},
                               ![c].attempts = Append(@, [id |-> player.id, ok |-> ok]),
                               ![c].outcome = IF SendRaises(ok) THEN "raised" ELSE @]
    /\ UNCHANGED <<is_running, hpc, hnd>>
    /\ UNCHANGED <<regVars, histVars, queueVars, procVars, gameVars, moreVars>>

\* the loop of c's broadcast_message call has ended, normally or not
BroadcastEnded(c) == it[c].outcome \in {"stop", "RuntimeError", "raised"}

(***************************************************************************)
(* The registry and broadcast_message, one call at a time                  *)
(***************************************************************************)
NoBroadcastRunning == \A c \in Clients : it[c].outcome = "none"

OneAddPlayer(name, connection) == NoBroadcastRunning /\ AddPlayer(name, connection)

OneRemovePlayer(player_id) == NoBroadcastRunning /\ RemovePlayer(player_id)

\* a caller enters broadcast_message
BroadcastMessage(c, exclude_player) ==
    /\ NoBroadcastRunning
    /\ exclude_player \in PlayerIds \cup {None}
    /\ BroadcastStarted(c, exclude_player)
    /\ UNCHANGED <<is_running, hpc, hnd>>
    /\ UNCHANGED <<regVars, histVars, queueVars, procVars, gameVars, moreVars>>

\* the call returns, or the caller handles what it raised
BroadcastReturn(c) ==
    /\ hpc[c] = "new"
    /\ BroadcastEnded(c)
    /\ it' = [it EXCEPT ![c] = IterIdle]
    /\ UNCHANGED <<is_running, hpc, hnd>>
    /\ UNCHANGED <<regVars, histVars, queueVars, procVars, gameVars, moreVars>>

InitBroadcast ==
    /\ max_players = MaxPlayersCfg
    /\ players = <<>>
    /\ players_by_connection = [c \in Conns |-> None]
    /\ next_id = 0
    /\ reg_ret = [op |-> "init", arg |-> None, ret |-> None]
    /\ HistoryIdle
    /\ QueueIdle
    /\ RestIdle

NextBroadcast ==
    \/ \E name \in NameInputs, connection \in Conns : OneAddPlayer(name, connection)
    \/ \E n \in 1..MaxIds : OneRemovePlayer(PlayerIdOf(n))
    \/ \E c \in Clients, n \in 0..MaxIds :
          BroadcastMessage(c, IF n = 0 THEN None ELSE PlayerIdOf(n))
    \/ \E c \in Clients : BroadcastNext(c)
    \/ \E c \in Clients : BroadcastReturn(c)

SpecBroadcast == InitBroadcast /\ [][NextBroadcast]_vars

(***************************************************************************)
(* RPGGameServer: the handler thread of each connection                    *)
(***************************************************************************)
DefaultLocation == "Taverna"

\* what ends the message loop besides the server stopping
LoopExits == {"closed", "error", "inactive"}

\* the handler of c moves to position pc, its locals changed by the fields of
\* change, with the effects in effects added to its observer log
HandlerMoves(c, pc, change, effects) ==
    /\ hpc' = [hpc EXCEPT ![c] = pc]
    /\ hnd' = [hnd EXCEPT ![c] =
                  [f \in DOMAIN hnd[c] |->
                      IF f = "log" THEN hnd[c].log \o effects
                      ELSE IF f \in DOMAIN change THEN change[f]
                      ELSE hnd[c][f]]]

NoChange == <<>>

\* _accept_connections starts _handle_client(conn, addr) on a new thread
HandleClient(c) ==
    /\ hpc[c] = "new"
    /\ is_running
    /\ it[c].outcome = "none"
    /\ HandlerMoves(c, "get_name", NoChange, <<>>)
    /\ UNCHANGED <<is_running, it>>
    /\ UNCHANGED <<regVars, histVars, queueVars, procVars, gameVars, moreVars>>

\* a 20-character name
LongName == "Bartolomeu_Guimaraes"

\* what a client answers to the name request, decoded and stripped
TypedNames == {"", "Ana", "Bruno", LongName, LongName \o "x"}

\* if name and len(name) <= 20
ValidName(name) == name # "" /\ Len(name) <= 20

\* _get_player_name returns the typed name, or None (nothing received, an
\* invalid name, a timeout, an error) and the handler returns through finally
GetPlayerName(c, name) ==
    /\ hpc[c] = "get_name"
    /\ IF name = None \/ ~ValidName(name)
       THEN HandlerMoves(c, "finally", NoChange, <<>>)
       ELSE HandlerMoves(c, "add_player", [player_name |-> name], <<>>)
    /\ UNCHANGED <<is_running, it>>
    /\ UNCHANGED <<regVars, histVars, queueVars, procVars, gameVars, moreVars>>

\* a handler that goes on with whatever add_player returned
Refused_Never(player) == FALSE

\* if not player
Refused(player) == player = None

\* player = add_player(player_name, conn); a refused handler sends the
\* rejection text and returns through finally
RegisterPlayer(c) ==
    /\ hpc[c] = "add_player"
    /\ AddPlayerCall(hnd[c].player_name, c)
    /\ IF Refused(reg_ret'.ret)
       THEN HandlerMoves(c, "finally", NoChange, <<"rejection">>)
       ELSE HandlerMoves(c, "setup",
                         [player |-> reg_ret'.ret,
                          name |-> IF reg_ret'.ret = None THEN None
                                   ELSE players'[Len(players')].name],
                         <<"add_player">>)
    /\ UNCHANGED <<is_running, it>>
    /\ UNCHANGED <<histVars, queueVars, procVars, gameVars, moreVars>>

\* set_player_location, the welcome message, and the entry into the arrival
\* broadcast
WelcomePlayer(c) ==
    /\ hpc[c] = "setup"
    /\ SetPlayerLocationCall(hnd[c].player, DefaultLocation)
    /\ BroadcastStarted(c, hnd[c].player)
    /\ HandlerMoves(c, "join_broadcast", NoChange, <<"welcome">>)
    /\ UNCHANGED <<is_running>>
    /\ UNCHANGED <<active_quests, completed_quests, save_file, saved, fresh, moreVars>>
    /\ UNCHANGED <<regVars, queueVars, procVars>>

\* after the arrival broadcast: the 'entrou no jogo' entry and the message
\* loop, or, when the broadcast raised, the except clause and finally
JoinDone(c) ==
    /\ hpc[c] = "join_broadcast"
    /\ BroadcastEnded(c)
    /\ IF it[c].outcome = "stop"
       THEN /\ HistoryPut("Sistema", hnd[c].name \o " entrou no jogo", "system")
            /\ HandlerMoves(c, "loop", NoChange, <<"join_broadcast", "join_history">>)
       ELSE /\ HandlerMoves(c, "finally", [exit |-> "error"], <<>>)
            /\ UNCHANGED histVars
    /\ it' = [it EXCEPT ![c] = IterIdle]
    /\ UNCHANGED <<is_running>>
    /\ UNCHANGED <<regVars, queueVars, procVars, gameVars, moreVars>>

\* one turn of _client_message_loop: the loop test fails because the server
\* stopped; or recv gives a free-form message, which process_player_action
\* adds to the history and the loop broadcasts with the response; or the
\* stream is closed, an exception is raised, or the player is inactive
ClientMessage(c, event) ==
    /\ hpc[c] = "loop"
    /\ IF ~is_running
       THEN /\ HandlerMoves(c, "finally", [exit |-> "stopped"], <<>>)
            /\ UNCHANGED <<it, histVars>>
       ELSE IF event = "message"
       THEN /\ hnd[c].messages < MaxMessages
            /\ HistoryPut(hnd[c].name, "ola", "player")
            /\ BroadcastStarted(c, None)
            /\ HandlerMoves(c, "chat_broadcast",
                            [messages |-> hnd[c].messages + 1], <<>>)
       ELSE /\ event \in LoopExits
            /\ HandlerMoves(c, "finally", [exit |-> event], <<>>)
            /\ UNCHANGED <<it, histVars>>
    /\ UNCHANGED <<is_running>>
    /\ UNCHANGED <<regVars, queueVars, procVars, gameVars, moreVars>>

\* after the broadcast of a message: update_activity and the next turn, or,
\* when the broadcast raised, the except clause breaks the loop
ChatDone(c) ==
    /\ hpc[c] = "chat_broadcast"
    /\ BroadcastEnded(c)
    /\ IF it[c].outcome = "stop"
       THEN HandlerMoves(c, "loop", NoChange, <<>>)
       ELSE HandlerMoves(c, "finally", [exit |-> "error"], <<>>)
    /\ it' = [it EXCEPT ![c] = IterIdle]
    /\ UNCHANGED <<is_running>>
    /\ UNCHANGED <<regVars, histVars, queueVars, procVars, gameVars, moreVars>>

\* finally: with a player, _handle_player_disconnect removes it from the
\* registry and from player_locations and enters the departure broadcast;
\* without one the connection is closed
HandleDisconnect(c) ==
    /\ hpc[c] = "finally"
    /\ IF hnd[c].player # None
       THEN /\ RemovePlayerCall(hnd[c].player)
            /\ player_locations' = DictDel(player_locations, hnd[c].player)
            /\ it' = [it EXCEPT ![c] =
                         [outcome |-> "running",
                          size |-> Len(players'),
                          exclude_player |-> None,
                          passed |-> {},
                          attempts |-> <<>>,
                          targets |-> {players'[i].id : i \in 1..Len(players')}]]
            /\ HandlerMoves(c, "leave_broadcast", NoChange,
                            <<"disconnect", "remove_player">>)
       ELSE /\ HandlerMoves(c, "closed", NoChange, <<>>)
            /\ UNCHANGED <<regVars, player_locations, it>>
    /\ UNCHANGED <<is_running>>
    /\ UNCHANGED <<active_quests, completed_quests, save_file, saved, fresh, moreVars>>
    /\ UNCHANGED <<histVars, queueVars, procVars>>

\* after the departure broadcast: the 'saiu do jogo' entry, or, when the
\* broadcast raised, the except clause of _handle_player_disconnect; then
\* conn.close()
LeaveDone(c) ==
    /\ hpc[c] = "leave_broadcast"
    /\ BroadcastEnded(c)
    /\ IF it[c].outcome = "stop"
       THEN /\ HistoryPut("Sistema", hnd[c].name \o " saiu do jogo", "system")
            /\ HandlerMoves(c, "closed", NoChange, <<"leave_broadcast", "leave_history">>)
       ELSE /\ HandlerMoves(c, "closed", NoChange, <<>>)
            /\ UNCHANGED histVars
    /\ it' = [it EXCEPT ![c] = IterIdle]
    /\ UNCHANGED <<is_running>>
    /\ UNCHANGED <<regVars, queueVars, procVars, gameVars, moreVars>>

\* RPGGameServer.shutdown: is_running = False
Shutdown ==
    /\ is_running
    /\ is_running' = FALSE
    /\ UNCHANGED <<hpc, hnd, it>>
    /\ UNCHANGED <<regVars, histVars, queueVars, procVars, gameVars, moreVars>>

\* RPGGameServer.__init__, with server.max_players at most the number of
\* clients that connect
InitServer ==
    /\ max_players \in 1..Cardinality(Clients)
    /\ players = <<>>
    /\ players_by_connection = [c \in Conns |-> None]
    /\ next_id = 0
    /\ reg_ret = [op |-> "init", arg |-> None, ret |-> None]
    /\ HistoryStarted
    /\ QueueIdle
    /\ RestIdle

NextServer ==
    \/ \E c \in Clients : HandleClient(c)
    \/ \E c \in Clients, name \in TypedNames \cup {None} : GetPlayerName(c, name)
    \/ \E c \in Clients : RegisterPlayer(c)
    \/ \E c \in Clients : WelcomePlayer(c)
    \/ \E c \in Clients : BroadcastNext(c)
    \/ \E c \in Clients : JoinDone(c)
    \/ \E c \in Clients, event \in LoopExits \cup {"message"} : ClientMessage(c, event)
    \/ \E c \in Clients : ChatDone(c)
    \/ \E c \in Clients : HandleDisconnect(c)
    \/ \E c \in Clients : LeaveDone(c)
    \/ Shutdown

SpecServer == InitServer /\ [][NextServer]_vars


(***************************************************************************)
(* SimpleGameMaster: process_player_action and the commands                *)
(***************************************************************************)
\* the messages clients send, stripped and printable
Messages ==
    {"{fazer abrir}", "{dizer ola}", "{HISTORIA chove}", "{mestre}", "{status}",
     "{ajuda}", "ola", "{fazer}"}

\* the command words in the order _process_commands tries them
CommandWords ==
    <<"fazer", "dizer", "historia", "mestre", "status", "ajuda", "explorar",
      "mover", "inventario", "salvar", "carregar">>

CharAt(s, i) == SubSeq(s, i, i)

UpperCase == "ABCDEFGHIJKLMNOPQRSTUVWXYZ"

LowerCase == "abcdefghijklmnopqrstuvwxyz"

\* re.IGNORECASE on one character
LowerChar(ch) ==
    IF \E i \in 1..Len(UpperCase) : CharAt(UpperCase, i) = ch
    THEN CharAt(LowerCase, CHOOSE i \in 1..Len(UpperCase) : CharAt(UpperCase, i) = ch)
    ELSE ch

RECURSIVE Lower(_)
Lower(s) == IF s = "" THEN "" ELSE LowerChar(CharAt(s, 1)) \o Lower(SubSeq(s, 2, Len(s)))

StartsWith(s, prefix) == Len(s) >= Len(prefix) /\ SubSeq(s, 1, Len(prefix)) = prefix

\* a match that asks for the command word alone
Matches_WordOnly(word, message) == StartsWith(Lower(message), "{" \o word)

\* whether re.compile(r"\{word\s+(.+)\}", re.IGNORECASE).match(message) or,
\* for the other words, r"\{word\}(?:\s+(.+))?" matches
Matches(word, message) ==
    IF word \in ActionTypes
    THEN LET n == Len(word) + 1
         IN /\ StartsWith(Lower(message), "{" \o word)
            /\ Len(message) >= n + 3
            /\ CharAt(message, n + 1) = " "
            /\ \E j \in (n + 3)..Len(message) : CharAt(message, j) = "}"
    ELSE StartsWith(Lower(message), "{" \o word \o "}")

\* the command whose pattern is the first to match, None when none does
MatchedCommand(message) ==
    LET hits == {i \in 1..Len(CommandWords) : Matches(CommandWords[i], message)}
    IN IF hits = {} THEN None
       ELSE CommandWords[CHOOSE i \in hits : \A j \in hits : i <= j]

\* _process_commands on each message clients send
CommandOf == [message \in Messages |-> MatchedCommand(message)]

\* a roleplay acknowledgement that is empty
RoleplayResponse_Empty(name, action) == ""

\* _process_roleplay_action(player, action)
RoleplayResponse(name, action) == "ROLEPLAY: " \o name \o " diz/faz: " \o action

\* the responses of _handle_fazer_command, _handle_dizer_command and
\* _handle_historia_command, with the queue status after the submission
QueuedResponse(action_type, waiting) ==
    action_type \o " adicionada a fila de processamento. Status da fila: "
        \o ToString(waiting) \o " acoes aguardando"

\* _handle_status_command: datetime.fromtimestamp(player.last_activity) is
\* given a datetime and raises TypeError, which the except clause turns into
\* this text
StatusResponse == "Erro ao obter status: TypeError"

\* _handle_help_command and the acknowledgements of explorar, mover,
\* inventario, salvar and carregar
AuxResponse(command) == "resposta de " \o command

\* the response of _handle_mestre_command for a processed batch
MestreResponse(result) ==
    "MESTRE PROCESSANDO " \o ToString(result.processed_count) \o " ACOES. RESUMO FINAL: "
        \o result.final_summary

\* the shared state a handled message may write, as it is at the call
EntryState ==
    [game_history |-> game_history,
     history_count |-> history_count,
     heap |-> heap,
     actions |-> actions,
     last_story_context |-> last_story_context,
     players |-> players,
     players_by_connection |-> players_by_connection,
     player_locations |-> player_locations,
     active_quests |-> active_quests,
     completed_quests |-> completed_quests]

\* the player whose handler serves connection c
PlayerOf(c) == CHOOSE p \in Range(players) : p.connection = c

\* SimpleGameMaster.process_player_action(player, action), called by the
\* message loop of c's handler: update_activity, the history entry, then the
\* command or the roleplay acknowledgement; a {mestre} with pending actions
\* goes on inside process_all_actions
ProcessPlayerAction(c, message, tick) ==
    /\ gm.pc = "idle"
    /\ gm.turns < MaxTurns
    /\ players_by_connection[c] # None
    /\ LET player == PlayerOf(c)
           command == CommandOf[message]
           called == [gm EXCEPT !.c = c, !.message = message, !.command = command,
                                !.raised = FALSE, !.turns = @ + 1,
                                !.entry = EntryState]
       IN /\ last_activity' = DictPut(last_activity, player.id, clock + tick)
          /\ HistoryPut(player.name, message, "player")
          /\ IF command \in ActionTypes
             THEN /\ AddActionCall(player.id, command, tick)
                  /\ gm' = [called EXCEPT
                               !.pc = "responded",
                               !.response = QueuedResponse(command,
                                                Len(Unprocessed(actions)) + 1)]
             ELSE IF command = "mestre" /\ Unprocessed(actions) # <<>>
             THEN /\ FlushStartCall
                  /\ clock' = clock + tick
                  /\ gm' = [called EXCEPT !.pc = "flushing"]
             ELSE /\ gm' = [called EXCEPT
                               !.pc = "responded",
                               !.response =
                                   IF command = None
                                   THEN RoleplayResponse(player.name, message)
                                   ELSE IF command = "mestre"
                                   THEN "Nenhuma acao para processar."
                                   ELSE IF command = "status"
                                   THEN StatusResponse
                                   ELSE AuxResponse(command)]
                  /\ clock' = clock + tick
                  /\ UNCHANGED <<heap, actions, last_story_context, processing_order,
                                 tie_breaker>>
                  /\ UNCHANGED procVars
    /\ UNCHANGED <<sessions, current_session, total_sessions, config, last_save, autosave>>
    /\ UNCHANGED <<regVars, gameVars, netVars>>

\* process_all_actions has returned to _handle_mestre_command, which builds
\* the response
MestreDone ==
    /\ gm.pc = "flushing"
    /\ FlushReturnCall
    /\ gm' = [gm EXCEPT !.pc = "responded", !.response = MestreResponse(fl.ret)]
    /\ UNCHANGED <<sessions, current_session, total_sessions, last_activity, config, last_save, autosave>>
    /\ UNCHANGED <<regVars, histVars, gameVars, netVars>>

\* back in _client_message_loop: the message and the response are broadcast
BroadcastResponse ==
    /\ gm.pc = "responded"
    /\ BroadcastStarted(gm.c, None)
    /\ gm' = [gm EXCEPT !.pc = "broadcast"]
    /\ UNCHANGED <<is_running, hpc, hnd>>
    /\ UNCHANGED <<sessions, current_session, total_sessions, last_activity, config, last_save, autosave>>
    /\ UNCHANGED <<regVars, histVars, queueVars, procVars, gameVars>>

\* after the broadcast: player.update_activity() and the next recv
TurnDone(tick) ==
    /\ gm.pc = "broadcast"
    /\ it[gm.c].outcome = "stop"
    /\ gm' = [gm EXCEPT !.pc = "idle"]
    /\ it' = [it EXCEPT ![gm.c] = IterIdle]
    /\ last_activity' = DictPut(last_activity, PlayerOf(gm.c).id, clock + tick)
    /\ clock' = clock + tick
    /\ UNCHANGED <<heap, actions, last_story_context, processing_order, tie_breaker>>
    /\ UNCHANGED <<is_running, hpc, hnd>>
    /\ UNCHANGED <<sessions, current_session, total_sessions, config, last_save, autosave>>
    /\ UNCHANGED <<regVars, histVars, procVars, gameVars>>

\* a running server with two participants in the message loop, the queue and
\* the processor as SimpleGameMaster.__init__ builds them
InitMaster ==
    /\ max_players = 2
    /\ players = <<[id |-> "u1", name |-> "Ana", connection |-> "c1"],
                   [id |-> "u2", name |-> "Bruno", connection |-> "c2"]>>
    /\ players_by_connection = [c \in Conns |->
                                   IF c = "c1" THEN "u1" ELSE IF c = "c2" THEN "u2" ELSE None]
    /\ next_id = 2
    /\ reg_ret = [op |-> "add_player", arg |-> "Bruno", ret |-> "u2"]
    /\ HistoryStarted
    /\ QueueIdle
    /\ player_locations = [p \in {"u1", "u2"} |-> DefaultLocation]
    /\ active_quests = <<>>
    /\ completed_quests = <<>>
    /\ save_file = NoFile
    /\ saved = <<>>
    /\ fresh = NoFresh
    /\ is_running = TRUE
    /\ hpc = [c \in Clients |-> "loop"]
    /\ hnd = [c \in Clients |->
                 [HandlerIdle EXCEPT !.player = players_by_connection[c],
                                     !.player_name = PlayerOf(c).name,
                                     !.name = PlayerOf(c).name]]
    /\ it = [c \in Clients |-> IterIdle]
    /\ sessions = <<[session_name |-> "Sessao RPG", is_active |-> FALSE],
                    [session_name |-> "Sessao Principal", is_active |-> TRUE]>>
    /\ current_session = 2
    /\ total_sessions = 1
    /\ gm = MasterIdle
    /\ config = DefaultConfig
    /\ last_save = NeverSaved
    /\ autosave = AutoSaveIdle
    /\ last_activity = [p \in {"u1", "u2"} |-> 0]

\* the steps of the broadcast after a message
ResponseSent == gm.pc = "broadcast" /\ BroadcastNext(gm.c)

NextMaster ==
    \/ \E c \in Clients, message \in Messages, tick \in {0, 1} :
          ProcessPlayerAction(c, message, tick)
    \/ FlushContext
    \/ FlushProcessOne
    \/ FlushApply
    \/ FlushMark
    \/ FlushSummary
    \/ MestreDone
    \/ BroadcastResponse
    \/ ResponseSent
    \/ \E tick \in {0, 1} : TurnDone(tick)

\* the messages of the participants handled one at a time
SpecMaster == InitMaster /\ [][NextMaster]_vars
(***************************************************************************)
(* Two connection threads inside ActionProcessor.process_all_actions at    *)
(* once: the method takes no lock, so the steps of the second thread       *)
(* interleave freely with those of the first                               *)
(***************************************************************************)
\* lines 129-139 in the second thread: its snapshot and the early return
SecondFlushStart ==
    /\ fl2.pc = "idle"
    /\ LET unprocessed_actions == Unprocessed(actions)
           entered == [fl2 EXCEPT !.unprocessed_actions = unprocessed_actions,
                                  !.pending0 = {a \in Range(actions) : heap[a].processed = FALSE},
                                  !.base = Len(heap)]
       IN IF NothingToProcess(unprocessed_actions)
          THEN fl2' = [entered EXCEPT
                          !.pc = "done",
                          !.ret = [success |-> TRUE,
                                   message |-> "Nenhuma acao para processar",
                                   processed_count |-> 0,
                                   results |-> <<>>]]
          ELSE fl2' = [entered EXCEPT !.pc = "context"]
    /\ UNCHANGED <<processing_history, ai_calls, fl, cl, q_last, late>>
    /\ UNCHANGED <<regVars, histVars, queueVars, restVars>>

\* lines 141-149 in the second thread
SecondFlushContext ==
    /\ fl2.pc = "context"
    /\ \E shuffled \in (IF processing_order = "random"
                        THEN Shuffles(fl2.unprocessed_actions)
                        ELSE {fl2.unprocessed_actions}) :
          fl2' = [fl2 EXCEPT
                     !.pc = "loop",
                     !.story_context =
                         IF last_story_context # 0
                         THEN heap[last_story_context].content
                         ELSE None,
                     !.sorted_actions = SortForProcessing(fl2.unprocessed_actions, shuffled),
                     !.i = 1]
    /\ UNCHANGED <<processing_history, ai_calls, fl, cl, q_last, late>>
    /\ UNCHANGED <<regVars, histVars, queueVars, restVars>>

\* lines 151-158 in the second thread: action.result is assigned whatever the
\* processed flag says by now
SecondFlushProcessOne ==
    /\ fl2.pc = "loop"
    /\ \E ai_response \in AIResponses :
          LET a == fl2.sorted_actions[fl2.i]
              result == SingleResult(a, ai_response)
          IN /\ heap' = [heap EXCEPT ![a].result = result]
             /\ fl2' = [fl2 EXCEPT
                           !.results = Append(@, result),
                           !.game_state_updates =
                               IF result.success THEN @ \o result.game_state_updates ELSE @,
                           !.i = @ + 1,
                           !.ai_text = @ \/ (ai_response # None /\ ai_response # ""),
                           !.contexts = Append(@, ContextUsed(fl2)),
                           !.pc = IF fl2.i = Len(fl2.sorted_actions) THEN "apply" ELSE "loop"]
    /\ ai_calls' = ai_calls + 1
    /\ UNCHANGED <<actions, last_story_context, processing_order, tie_breaker, clock>>
    /\ UNCHANGED <<processing_history, fl, cl, q_last, late>>
    /\ UNCHANGED <<regVars, histVars, restVars>>

\* lines 170-171 in the second thread
SecondFlushApply ==
    /\ fl2.pc = "apply"
    /\ LET applied == ApplyUpdates(fl2.game_state_updates, game_history, history_count)
       IN /\ game_history' = applied.history
          /\ history_count' = applied.count
    /\ fl2' = [fl2 EXCEPT !.pc = "mark"]
    /\ UNCHANGED <<max_history, history_log>>
    /\ UNCHANGED <<processing_history, ai_calls, fl, cl, q_last, late>>
    /\ UNCHANGED <<regVars, queueVars, restVars>>

\* lines 173-175 in the second thread
SecondFlushMark ==
    /\ fl2.pc = "mark"
    /\ heap' = [a \in DOMAIN heap |->
                   IF a \in Range(fl2.unprocessed_actions)
                   THEN [heap[a] EXCEPT !.processed = TRUE]
                   ELSE heap[a]]
    /\ fl2' = [fl2 EXCEPT !.pc = "summary"]
    /\ UNCHANGED <<actions, last_story_context, processing_order, tie_breaker, clock>>
    /\ UNCHANGED <<processing_history, ai_calls, fl, cl, q_last, late>>
    /\ UNCHANGED <<regVars, histVars, restVars>>

\* lines 177-194 in the second thread
SecondFlushSummary ==
    /\ fl2.pc = "summary"
    /\ \E ai_summary \in AIResponses :
          LET final_summary == OrFallback(ai_summary, FallbackSummary(Len(fl2.results)))
          IN /\ processing_history' =
                    Append(processing_history,
                           [timestamp |-> clock,
                            actions_processed |-> Len(fl2.unprocessed_actions),
                            results |-> fl2.results,
                            summary |-> final_summary])
             /\ fl2' = [fl2 EXCEPT
                           !.pc = "done",
                           !.ai_text = @ \/ (ai_summary # None /\ ai_summary # ""),
                           !.contexts = Append(@, ContextUsed(fl2)),
                           !.ret = [success |-> TRUE,
                                    processed_count |-> Len(fl2.unprocessed_actions),
                                    results |-> fl2.results,
                                    final_summary |-> final_summary,
                                    game_state_updates |-> fl2.game_state_updates]]
    /\ ai_calls' = ai_calls + 1
    /\ UNCHANGED <<fl, cl, q_last, late>>
    /\ UNCHANGED <<regVars, histVars, queueVars, restVars>>

\* the second thread's caller takes the result
SecondFlushReturn ==
    /\ fl2.pc = "done"
    /\ fl2' = FlushLocalsIdle
    /\ q_last' = [op |-> "flush", ret |-> fl2.ret.processed_count]
    /\ UNCHANGED <<processing_history, ai_calls, fl, cl, late>>
    /\ UNCHANGED <<regVars, histVars, queueVars, restVars>>

\* a submission made before any thread has entered the processor
QueueAction(player_id, action_type, tick) ==
    /\ fl.pc = "idle"
    /\ fl2.pc = "idle"
    /\ cl.pc = "idle"
    /\ processing_history = <<>>
    /\ AddAction(player_id, action_type, tick)

NextOverlap ==
    \/ \E player_id \in Submitters, action_type \in ActionTypes :
          QueueAction(player_id, action_type, 1)
    \/ FlushStart
    \/ FlushContext
    \/ FlushProcessOne
    \/ FlushApply
    \/ FlushMark
    \/ FlushSummary
    \/ FlushReturn
    \/ SecondFlushStart
    \/ SecondFlushContext
    \/ SecondFlushProcessOne
    \/ SecondFlushApply
    \/ SecondFlushMark
    \/ SecondFlushSummary
    \/ SecondFlushReturn

\* two connection threads that both received '{mestre}'
SpecOverlap == InitServerQueue /\ [][NextOverlap]_vars
(***************************************************************************)
(* _client_message_loop with the clock: the activity test at the top of    *)
(* the loop and the recv that follows it                                   *)
(***************************************************************************)
\* the clock counts minutes; Player.is_active compares seconds
SecondsPerMinute == 60

\* Player.is_active(timeout_minutes) for the player with id player_id
IsActive(player_id, timeout_minutes) ==
    IF timeout_minutes <= 0
    THEN TRUE
    ELSE (clock - last_activity[player_id]) * SecondsPerMinute < timeout_minutes * 60

\* the values of game.session_timeout and server.player_name_timeout
TimeoutConfigs ==
    [session_timeout : 0..MaxTimeout, player_name_timeout : {0, 1}]

\* the thread of c is handling a message it received
Handling(c) == gm.pc # "idle" /\ gm.c = c

\* time passes
Tick ==
    /\ clock < MaxClock
    /\ clock' = clock + 1
    /\ UNCHANGED <<heap, actions, last_story_context, processing_order, tie_breaker>>
    /\ UNCHANGED <<regVars, histVars, procVars, restVars>>

\* while self.is_running and player.is_active(config.get('game.session_timeout', 0)):
\* the test fails and the handler goes to finally, or the thread enters recv
LoopTest(c) ==
    /\ hpc[c] = "loop"
    /\ IF ~is_running
       THEN HandlerMoves(c, "finally", [exit |-> "stopped"], <<>>)
       ELSE IF ~IsActive(hnd[c].player, config.session_timeout)
       THEN HandlerMoves(c, "finally", [exit |-> "inactive"], <<>>)
       ELSE HandlerMoves(c, "recv", NoChange, <<>>)
    /\ UNCHANGED <<is_running, it>>
    /\ UNCHANGED <<regVars, histVars, queueVars, procVars, gameVars, moreVars>>

\* conn.recv(4096) raises socket.timeout, which only a socket that was given
\* a timeout does (_get_player_name: settimeout(None) when the configured
\* value is 0); except socket.timeout: continue
RecvTimeout(c) ==
    /\ hpc[c] = "recv"
    /\ ~Handling(c)
    /\ config.player_name_timeout > 0
    /\ HandlerMoves(c, "loop", NoChange, <<>>)
    /\ UNCHANGED <<is_running, it>>
    /\ UNCHANGED <<regVars, histVars, queueVars, procVars, gameVars, moreVars>>

\* recv returns no data: the client closed the stream; break
RecvClosed(c) ==
    /\ hpc[c] = "recv"
    /\ ~Handling(c)
    /\ HandlerMoves(c, "finally", [exit |-> "closed"], <<>>)
    /\ UNCHANGED <<is_running, it>>
    /\ UNCHANGED <<regVars, histVars, queueVars, procVars, gameVars, moreVars>>

\* recv returns a message, which goes to process_player_action
Receive(c, message, tick) ==
    /\ hpc[c] = "recv"
    /\ ProcessPlayerAction(c, message, tick)

\* after the broadcast of message and response: player.update_activity() and
\* the loop test again; a broadcast that raised breaks the loop
TurnEnds(tick) ==
    /\ gm.pc = "broadcast"
    /\ BroadcastEnded(gm.c)
    /\ gm' = [gm EXCEPT !.pc = "idle"]
    /\ it' = [it EXCEPT ![gm.c] = IterIdle]
    /\ IF it[gm.c].outcome = "stop"
       THEN /\ last_activity' = DictPut(last_activity, hnd[gm.c].player, clock + tick)
            /\ clock' = clock + tick
            /\ HandlerMoves(gm.c, "loop", NoChange, <<>>)
       ELSE /\ HandlerMoves(gm.c, "finally", [exit |-> "error"], <<>>)
            /\ UNCHANGED <<last_activity, clock>>
    /\ UNCHANGED <<heap, actions, last_story_context, processing_order, tie_breaker>>
    /\ UNCHANGED <<is_running>>
    /\ UNCHANGED <<sessions, current_session, total_sessions, config, last_save, autosave>>
    /\ UNCHANGED <<regVars, histVars, procVars, gameVars>>

\* the participant who keeps the connection open and sends nothing
Quiet == "c1"

\* the other participants
Talkers == Clients \ {Quiet}

\* what the talkers send
TalkerMessages == {"ola", "{dizer ola}"}

\* a running server with two participants at the top of their message
\* loops, under any setting of the two timeouts
InitIdle ==
    /\ max_players = 2
    /\ players = <<[id |-> "u1", name |-> "Ana", connection |-> "c1"],
                   [id |-> "u2", name |-> "Bruno", connection |-> "c2"]>>
    /\ players_by_connection = [c \in Conns |->
                                   IF c = "c1" THEN "u1" ELSE IF c = "c2" THEN "u2" ELSE None]
    /\ next_id = 2
    /\ reg_ret = [op |-> "add_player", arg |-> "Bruno", ret |-> "u2"]
    /\ HistoryStarted
    /\ QueueIdle
    /\ player_locations = [p \in {"u1", "u2"} |-> DefaultLocation]
    /\ active_quests = <<>>
    /\ completed_quests = <<>>
    /\ save_file = NoFile
    /\ saved = <<>>
    /\ fresh = NoFresh
    /\ is_running = TRUE
    /\ hpc = [c \in Clients |-> "loop"]
    /\ hnd = [c \in Clients |->
                 [HandlerIdle EXCEPT !.player = players_by_connection[c],
                                     !.player_name = PlayerOf(c).name,
                                     !.name = PlayerOf(c).name]]
    /\ it = [c \in Clients |-> IterIdle]
    /\ sessions = <<[session_name |-> "Sessao RPG", is_active |-> FALSE],
                    [session_name |-> "Sessao Principal", is_active |-> TRUE]>>
    /\ current_session = 2
    /\ total_sessions = 1
    /\ gm = MasterIdle
    /\ last_activity = [p \in {"u1", "u2"} |-> 0]
    /\ config \in TimeoutConfigs
    /\ last_save = NeverSaved
    /\ autosave = AutoSaveIdle

\* the steps of a handler thread that need no input
HandlerStep(c) ==
    \/ LoopTest(c)
    \/ RecvTimeout(c)
    \/ HandleDisconnect(c)
    \/ BroadcastNext(c)
    \/ LeaveDone(c)

NextIdle ==
    \/ Tick
    \/ \E c \in Clients : LoopTest(c)
    \/ \E c \in Clients : RecvTimeout(c)
    \/ \E c \in Talkers : RecvClosed(c)
    \/ \E c \in Talkers, message \in TalkerMessages, tick \in {0, 1} :
          Receive(c, message, tick)
    \/ BroadcastResponse
    \/ \E tick \in {0, 1} : TurnEnds(tick)
    \/ \E c \in Clients : BroadcastNext(c)
    \/ \E c \in Clients : HandleDisconnect(c)
    \/ \E c \in Clients : LeaveDone(c)

\* one participant stays silent with the connection open while time passes
SpecIdle == InitIdle /\ [][NextIdle]_vars

\* the clock advances and every handler thread gets to run
SpecIdleFair ==
    /\ SpecIdle
    /\ WF_vars(Tick)
    /\ \A c \in Clients : WF_vars(HandlerStep(c))
    /\ WF_vars(BroadcastResponse)
    /\ WF_vars(\E tick \in {0, 1} : TurnEnds(tick))
(***************************************************************************)
(* RPGGameServer._auto_save_loop on its daemon thread                      *)
(***************************************************************************)
\* while self.is_running: the loop ends, or the thread enters time.sleep
AutoSaveTest ==
    /\ autosave.pc = "test"
    /\ autosave' = [autosave EXCEPT !.pc = IF is_running THEN "sleep" ELSE "ended"]
    /\ UNCHANGED <<sessions, current_session, total_sessions, gm, last_activity, config,
                   last_save>>
    /\ UNCHANGED <<regVars, histVars, queueVars, procVars, gameVars, netVars>>

\* time.sleep returns; if self.is_running: the save is attempted, otherwise
\* the thread goes back to the loop test
AutoSaveWakes ==
    /\ autosave.pc = "sleep"
    /\ autosave' = [autosave EXCEPT !.pc = IF is_running THEN "save" ELSE "test"]
    /\ UNCHANGED <<sessions, current_session, total_sessions, gm, last_activity, config,
                   last_save>>
    /\ UNCHANGED <<regVars, histVars, queueVars, procVars, gameVars, netVars>>

\* self.game_state.save_game_state(filename), which logs its own errors and
\* returns; then the next turn of the loop
AutoSaveAttempt(outcome) ==
    /\ autosave.pc = "save"
    /\ SaveGameStateCall(outcome)
    /\ autosave' = [pc |-> "test", last |-> outcome]
    /\ UNCHANGED <<sessions, current_session, total_sessions, gm, last_activity, config>>
    /\ UNCHANGED <<regVars, histVars, queueVars, procVars, netVars>>

\* a running server with two participants in the message loop and the
\* auto-save thread started by start_server
InitAutoSave ==
    /\ InitIdle
    /\ config = DefaultConfig

NextAutoSave ==
    \/ AutoSaveTest
    \/ AutoSaveWakes
    \/ \E outcome \in SaveOutcomes : AutoSaveAttempt(outcome)
    \/ \E c \in Clients : LoopTest(c)
    \/ \E c \in Talkers : RecvClosed(c)
    \/ \E c \in Talkers : Receive(c, "ola", 1)
    \/ BroadcastResponse
    \/ TurnEnds(0)
    \/ \E c \in Clients : BroadcastNext(c)
    \/ \E c \in Clients : HandleDisconnect(c)
    \/ \E c \in Clients : LeaveDone(c)
    \/ Shutdown

\* the auto-save thread beside the connection handlers
SpecAutoSave == InitAutoSave /\ [][NextAutoSave]_vars

\* the auto-save thread gets to run and its sleep ends
SpecAutoSaveFair ==
    /\ SpecAutoSave
    /\ WF_vars(AutoSaveTest)
    /\ WF_vars(AutoSaveWakes)
    /\ WF_vars(\E outcome \in SaveOutcomes : AutoSaveAttempt(outcome))
(***************************************************************************)
(* PlayerManager.add_player statement by statement, on the handler threads *)
(* of two connections: the method takes no lock                            *)
(***************************************************************************)
\* _handle_client of c calls add_player(name, conn)
AddPlayerEnter(c, name) ==
    /\ hpc[c] = "new"
    /\ players_by_connection[c] = None
    /\ HandlerMoves(c, "add_player", [player_name |-> name], <<>>)
    /\ UNCHANGED <<is_running, it>>
    /\ UNCHANGED <<regVars, histVars, queueVars, procVars, gameVars, moreVars>>

\* if len(self.players) >= self.max_players: return None
AddPlayerCapacity(c) ==
    /\ hpc[c] = "add_player"
    /\ IF SessionFull
       THEN /\ reg_ret' = [op |-> "add_player", arg |-> hnd[c].player_name, ret |-> None]
            /\ HandlerMoves(c, "refused", NoChange, <<>>)
       ELSE /\ HandlerMoves(c, "add_name", NoChange, <<>>)
            /\ UNCHANGED reg_ret
    /\ UNCHANGED <<max_players, players, players_by_connection, next_id>>
    /\ UNCHANGED <<is_running, it>>
    /\ UNCHANGED <<histVars, queueVars, procVars, gameVars, moreVars>>

\* the while loop that makes the name unique among the players registered
\* when it runs
AddPlayerName(c) ==
    /\ hpc[c] = "add_name"
    /\ HandlerMoves(c, "add_insert", [name |-> ResolveName(hnd[c].player_name)], <<>>)
    /\ UNCHANGED <<is_running, it>>
    /\ UNCHANGED <<regVars, histVars, queueVars, procVars, gameVars, moreVars>>

\* player = Player(name, connection) and the two assignments to the maps
AddPlayerInsert(c) ==
    /\ hpc[c] = "add_insert"
    /\ next_id < MaxIds
    /\ LET player == [id |-> PlayerIdOf(next_id + 1),
                      name |-> hnd[c].name,
                      connection |-> c]
       IN /\ players' = Append(players, player)
          /\ players_by_connection' = [players_by_connection EXCEPT ![c] = player.id]
          /\ next_id' = next_id + 1
          /\ reg_ret' = [op |-> "add_player", arg |-> hnd[c].player_name, ret |-> player.id]
          /\ HandlerMoves(c, "added", [player |-> player.id], <<"add_player">>)
    /\ UNCHANGED max_players
    /\ UNCHANGED <<is_running, it>>
    /\ UNCHANGED <<histVars, queueVars, procVars, gameVars, moreVars>>

\* the handler of a registered or refused client ends: remove_player for a
\* registered one, and the connection can be accepted again
AddPlayerLeaves(c) ==
    /\ hpc[c] \in {"added", "refused"}
    /\ IF hnd[c].player # None
       THEN RemovePlayerCall(hnd[c].player)
       ELSE UNCHANGED regVars
    /\ hpc' = [hpc EXCEPT ![c] = "new"]
    /\ hnd' = [hnd EXCEPT ![c] = HandlerIdle]
    /\ UNCHANGED <<is_running, it>>
    /\ UNCHANGED <<histVars, queueVars, procVars, gameVars, moreVars>>

\* RPGGameServer.__init__ with room for one or two players
InitJoin ==
    /\ max_players \in 1..Cardinality(Clients)
    /\ players = <<>>
    /\ players_by_connection = [c \in Conns |-> None]
    /\ next_id = 0
    /\ reg_ret = [op |-> "init", arg |-> None, ret |-> None]
    /\ HistoryStarted
    /\ QueueIdle
    /\ RestIdle

NextJoin ==
    \/ \E c \in Clients, name \in NameInputs : AddPlayerEnter(c, name)
    \/ \E c \in Clients : AddPlayerCapacity(c)
    \/ \E c \in Clients : AddPlayerName(c)
    \/ \E c \in Clients : AddPlayerInsert(c)
    \/ \E c \in Clients : AddPlayerLeaves(c)

\* two handler threads inside add_player at once
SpecJoin == InitJoin /\ [][NextJoin]_vars
(***************************************************************************)
(* process_all_actions with a collaborator whose call can raise            *)
(***************************************************************************)
\* calls of the collaborator explored in the runs where a call can raise
MaxCalls == 3

\* one turn of the loop in which _process_single_action raises: the except
\* clause formats action.id into its log message, PlayerAction has no such
\* attribute, and the AttributeError leaves process_all_actions
FlushProcessRaises ==
    /\ fl.pc = "loop"
    /\ ai_calls < MaxCalls
    /\ fl' = [fl EXCEPT !.pc = "raised"]
    /\ q_last' = [op |-> "process_single", arg |-> fl.sorted_actions[fl.i], raised |-> TRUE]
    /\ ai_calls' = ai_calls + 1
    /\ UNCHANGED <<processing_history, cl, late, fl2>>
    /\ UNCHANGED <<regVars, histVars, queueVars, restVars>>

\* the caller of process_all_actions gets the exception
FlushRaised ==
    /\ fl.pc = "raised"
    /\ fl' = FlushLocalsIdle
    /\ q_last' = [op |-> "flush", ret |-> 0, raised |-> TRUE]
    /\ UNCHANGED <<processing_history, ai_calls, cl, late, fl2>>
    /\ UNCHANGED <<regVars, histVars, queueVars, restVars>>

NextFaulty ==
    \/ \E player_id \in Submitters, action_type \in ActionTypes :
          QueueAction(player_id, action_type, 1)
    \/ OneFlushStart
    \/ FlushContext
    \/ FlushProcessOne
    \/ FlushProcessRaises
    \/ FlushApply
    \/ FlushMark
    \/ FlushSummary
    \/ FlushReturn
    \/ FlushRaised

\* the queue and a processor built on a collaborator that can raise
SpecFaulty == InitServerQueue /\ [][NextFaulty]_vars
(***************************************************************************)
(* A 'historia' that arrives while process_all_actions is in its loop      *)
(***************************************************************************)
\* add_action('historia') called by another connection's thread between two
\* turns of the loop
LateHistoria(player_id) ==
    /\ fl.pc = "loop"
    /\ cl.pc = "idle"
    /\ AddActionWithin(MaxActions + 1, player_id, "historia", 1)
    /\ UNCHANGED <<regVars, histVars, restVars>>

NextContext ==
    \/ \E player_id \in Submitters, action_type \in ActionTypes :
          QueueAction(player_id, action_type, 1)
    \/ \E player_id \in Submitters : LateHistoria(player_id)
    \/ FlushStart
    \/ FlushContext
    \/ FlushProcessOne
    \/ FlushApply
    \/ FlushMark
    \/ FlushSummary
    \/ FlushReturn

\* one flush of what was queued, with 'historia' actions arriving meanwhile
SpecContext == InitServerQueue /\ [][NextContext]_vars
(***************************************************************************)
(* load_game_state given a snapshot of an earlier run                      *)
(***************************************************************************)
\* the history of a run that has recorded n events
HistoryOfRun(n) == [k \in 1..n |-> HistoryEntry(k, "Sistema", "desperta", "system")]

\* the saves directory holds a snapshot that save_game_state wrote in an
\* earlier run, n events long (the cap of that run was at least n)
EarlierSnapshot(n) ==
    /\ fresh.pc \in {"none", "new"}
    /\ save_file' = [exists |-> TRUE, valid |-> TRUE,
                     doc |-> [world |-> JsonString("<World object>"),
                              game_history |-> DumpList(HistoryOfRun(n)),
                              player_locations |-> DumpDict(<<>>),
                              active_quests |-> DumpList(<<>>),
                              completed_quests |-> DumpList(<<>>)]]
    /\ saved' = [game_history |-> HistoryOfRun(n),
                 player_locations |-> <<>>,
                 active_quests |-> <<>>,
                 completed_quests |-> <<>>]
    /\ UNCHANGED <<player_locations, active_quests, completed_quests, fresh>>
    /\ UNCHANGED <<regVars, histVars, queueVars, procVars, netVars, moreVars>>

NextLoad ==
    \/ \E p \in Submitters, l \in Locations : SetPlayerLocation(p, l)
    \/ \E q \in QuestInputs : AddQuest(q)
    \/ \E n \in 1..MaxQuests, p \in NameInputs :
          CompleteQuest("quest_" \o ToString(n), p)
    \/ \E outcome \in SaveOutcomes : SaveGameState(outcome)
    \/ \E n \in 1..(MaxHistoryCfg + 1) : EarlierSnapshot(n)
    \/ NewGameState
    \/ LoadGameState
    \/ DropGameState

\* a game state, its snapshots and those left by earlier runs
SpecLoad == InitSave /\ [][NextLoad]_vars
(***************************************************************************)
(* Participants who leave with actions still in the queue                  *)
(***************************************************************************)
\* what the participants send: an action for the queue, or the flush
LeaveMessages == {"{fazer abrir}", "{mestre}"}

\* a minute passes with no message from anyone
Lull == clock = 0 /\ Tick

\* a running server with two participants in the message loop, evicted after
\* a minute of silence
InitLeave ==
    /\ InitIdle
    /\ config = [session_timeout |-> 1, player_name_timeout |-> 0]

NextLeave ==
    \/ Lull
    \/ \E c \in Clients : LoopTest(c)
    \/ \E c \in Clients : RecvClosed(c)
    \/ \E c \in Clients, message \in LeaveMessages : Receive(c, message, 0)
    \/ FlushContext
    \/ FlushProcessOne
    \/ FlushApply
    \/ FlushMark
    \/ FlushSummary
    \/ MestreDone
    \/ BroadcastResponse
    \/ TurnEnds(0)
    \/ \E c \in Clients : BroadcastNext(c)
    \/ \E c \in Clients : HandleDisconnect(c)
    \/ \E c \in Clients : LeaveDone(c)

\* two participants who queue actions, flush, close their connections or are
\* evicted
SpecLeave == InitLeave /\ [][NextLeave]_vars
(***************************************************************************)
(* Claims about the registry                                               *)
(***************************************************************************)
\* C1: after any sequence of add_player / remove_player calls made one at a
\* time, no two players in the registry have the same display name.
C1_UniqueNames ==
    \A i, j \in 1..Len(players) :
        i # j => players[i].name # players[j].name

\* a registration whose typed name was taken twice over: "Ana" is typed while
\* both "Ana" and "Ana_1" are registered, and the newcomer becomes "Ana_2"
C1_Witness ==
    /\ reg_ret.op = "add_player"
    /\ reg_ret.arg = "Ana"
    /\ {"Ana", "Ana_1", "Ana_2"} \subseteq PlayerNames
    /\ \E i \in 1..Len(players) :
           players[i].id = reg_ret.ret /\ players[i].name = "Ana_2"

\* C2: the registry never holds more than max_players players, and an
\* add_player call made on a full registry returns None and leaves players and
\* players_by_connection as they were.
C2_Capacity ==
    /\ [](Len(players) <= max_players)
    /\ [][(Len(players) >= max_players /\ reg_ret'.op = "add_player")
            => /\ reg_ret'.ret = None
               /\ UNCHANGED <<players, players_by_connection>>]_vars

\* an add_player call refused by a registry that holds max_players >= 1 players
C2_Witness ==
    /\ reg_ret.op = "add_player"
    /\ reg_ret.ret = None
    /\ max_players >= 1
    /\ Len(players) = max_players

(***************************************************************************)
(* Claims about the queue and its processor                                *)
(***************************************************************************)
\* the actions whose results the returning flush reports, in result order
FlushReported == [k \in 1..Len(fl.ret.results) |-> fl.sorted_actions[k]]

\* the place the claim of C3 gives each kind: historia, then fazer, then dizer
C3_Place(action_type) ==
    CASE action_type = "historia" -> 1
      [] action_type = "fazer" -> 2
      [] action_type = "dizer" -> 3

\* C3: under the 'priority' order with the 'timestamp' tie-breaker a flush
\* processes every historia action before every fazer action and every fazer
\* before every dizer, and actions of one kind in submission order.
C3_PriorityOrder ==
    (/\ fl.pc = "done"
     /\ processing_order = "priority"
     /\ tie_breaker = "timestamp")
    => \A i, j \in 1..Len(fl.ret.results) :
          i < j =>
             LET ti == fl.ret.results[i].action_type
                 tj == fl.ret.results[j].action_type
             IN /\ C3_Place(ti) <= C3_Place(tj)
                /\ ti = tj => FlushReported[i] < FlushReported[j]

\* C4: an action added after a flush took its snapshot is not among that
\* flush's results and is still unprocessed, with no result, when the flush
\* returns; and the actions added during the flush before are among the
\* results of this one.
C4_SnapshotIsolation ==
    fl.pc = "done" =>
        /\ \A a \in 1..Len(heap) :
              a > fl.base =>
                 /\ a \notin Range(FlushReported)
                 /\ heap[a].processed = FALSE
                 /\ heap[a].result = NoResult
        /\ late \subseteq Range(FlushReported)

\* a flush returns the result of an action that was added while the flush
\* before it was running
C4_Witness ==
    /\ fl.pc = "done"
    /\ late # {}
    /\ late \subseteq Range(FlushReported)
    /\ \A a \in late : heap[a].processed

\* C5: when every generate_response call of a flush returns no text, the flush
\* of n >= 1 pending actions returns success with exactly n results, each
\* marked success and carrying the fallback text of its kind.
C5_Fallback ==
    (/\ fl.pc = "done"
     /\ fl.pending0 # {}
     /\ ~fl.ai_text)
    => /\ fl.ret.success
       /\ Len(fl.ret.results) = Cardinality(fl.pending0)
       /\ \A k \in 1..Len(fl.ret.results) :
             LET r == fl.ret.results[k]
             IN /\ r.success
                /\ r.result = FallbackText(r.action_type, r.content)
                /\ r.result # None /\ r.result # ""

\* a flush of two actions returns while no call to the collaborator gave text
C5_Witness ==
    /\ fl.pc = "done"
    /\ Cardinality(fl.pending0) = 2
    /\ ~fl.ai_text
    /\ Len(fl.ret.results) = 2

\* C6: a flush that finds no unprocessed action returns success with
\* processed_count 0, and from its call to its return there is no call to the
\* collaborator, nothing is appended to game_history or processing_history and
\* the queue stays as it was.
C6_EmptyFlush ==
    /\ [][(/\ fl.pc = "idle"
           /\ fl'.pc # "idle"
           /\ \A a \in Range(actions) : heap[a].processed)
          => /\ fl'.pc = "done"
             /\ fl'.ret.success
             /\ fl'.ret.processed_count = 0
             /\ UNCHANGED <<ai_calls, game_history, history_count,
                            processing_history, heap, actions,
                            last_story_context>>]_vars
    /\ [][(fl.pc = "done" /\ fl.pending0 = {})
          => UNCHANGED <<ai_calls, game_history, history_count,
                         processing_history, heap, actions,
                         last_story_context>>]_vars

\* a flush returns 0 from a queue that holds actions, all processed by an
\* earlier flush
C6_Witness ==
    /\ fl.pc = "done"
    /\ fl.ret.processed_count = 0
    /\ Len(actions) > 0
    /\ processing_history # <<>>

\* C7: when a flush of a non-empty queue returns, with no submission meanwhile,
\* processed_count is the number of actions that were unprocessed when it
\* started, each of them is processed and has a result, and no unprocessed
\* action is left in the queue.
C7_AllProcessed ==
    (fl.pc = "done" /\ fl.pending0 # {})
    => /\ fl.ret.processed_count = Cardinality(fl.pending0)
       /\ \A a \in fl.pending0 :
             heap[a].processed /\ heap[a].result # NoResult
       /\ \A a \in Range(actions) : heap[a].processed

\* a flush of two pending actions returns
C7_Witness ==
    /\ fl.pc = "done"
    /\ Cardinality(fl.pending0) = 2
    /\ fl.ret.processed_count = 2

\* the place of object a in list s
PlaceIn(s, a) == CHOOSE k \in 1..Len(s) : s[k] = a

\* C8: clear_processed_actions removes exactly the processed entries, returns
\* how many they were and keeps the others in their stored order; called again
\* with no submission or flush in between it returns 0 and changes nothing.
C8_Compaction ==
    cl.pc = "done" =>
        /\ Range(actions) = {a \in Range(cl.before) : ~heap[a].processed}
        /\ Len(actions) = Cardinality(Range(actions))
        /\ cl.ret = Cardinality({k \in 1..Len(cl.before) : heap[cl.before[k]].processed})
        /\ \A i, j \in 1..Len(actions) :
              i < j => PlaceIn(cl.before, actions[i]) < PlaceIn(cl.before, actions[j])
        /\ cl.prev_removed >= 0 => (cl.ret = 0 /\ actions = cl.before)

\* a second compaction right after one that removed an entry and kept another
C8_Witness ==
    /\ cl.pc = "done"
    /\ cl.prev_removed = 1
    /\ cl.ret = 0
    /\ Len(actions) = 1

\* C9: when clear_processed_actions and add_action run on two threads, the
\* action submitted after the compaction started is in the queue once both
\* have completed.
C9_NoLostSubmission ==
    cl.pc = "done" =>
        \A a \in 1..Len(heap) : a > cl.base => a \in Range(actions)

(***************************************************************************)
(* Claims about the history                                                *)
(***************************************************************************)
\* C10: once add_to_history has been called max_history + K times (K >= 0) on
\* a history that started empty, the history holds exactly max_history entries:
\* the most recent ones, in append order (the K oldest are missing).
C10_HistoryBound ==
    history_count >= max_history =>
        /\ Len(game_history) = max_history
        /\ game_history =
               SubSeq(history_log, history_count - max_history + 1, history_count)

(***************************************************************************)
(* Claims about saving and loading                                         *)
(***************************************************************************)
\* C11: after save_game_state has written a file and load_game_state has read
\* it into a fresh GameState, that instance's game_history, player_locations,
\* active_quests and completed_quests equal those of the saved instance at the
\* time it was saved.
C11_RoundTrip ==
    fresh.pc = "loaded" =>
        /\ fresh.game_history = fresh.source.game_history
        /\ fresh.player_locations = fresh.source.player_locations
        /\ fresh.active_quests = fresh.source.active_quests
        /\ fresh.completed_quests = fresh.source.completed_quests

\* a file holding a trimmed history, a location, an active quest without a
\* target location and a completed quest has been loaded
C11_Witness ==
    /\ fresh.pc = "loaded"
    /\ Len(fresh.game_history) = max_history
    /\ DOMAIN fresh.player_locations # {}
    /\ \E i \in 1..Len(fresh.active_quests) :
          fresh.active_quests[i].target_location = None
    /\ Len(fresh.completed_quests) = 1

(***************************************************************************)
(* Claims about the connection handlers                                    *)
(***************************************************************************)
\* the effects of _handle_player_disconnect in the log of c's handler
CleanupOf(c) ==
    SelectSeq(hnd[c].log,
              LAMBDA e : e \in {"disconnect", "remove_player",
                                "leave_broadcast", "leave_history"})

\* C12: when the handler of a connection has ended, by whichever exit path,
\* the disconnect cleanup (remove_player, the departure broadcast, the 'saiu
\* do jogo' history entry) has run exactly once if the connection registered
\* a player and not at all if it did not.
C12_CleanupOnce ==
    \A c \in Clients :
        hpc[c] = "closed" =>
            CleanupOf(c) =
                IF hnd[c].player # None
                THEN <<"disconnect", "remove_player", "leave_broadcast", "leave_history">>
                ELSE <<>>

\* C13: a handler whose add_player call is refused sends the rejection text
\* and goes straight to its end: it never enters the message loop, sends no
\* welcome and no 'entrou no jogo' broadcast, adds no join or leave entry to
\* the history, and its steps leave the registry and player_locations as
\* they were.
C13_RefusedHandler ==
    /\ [](\A c \in Clients :
            "rejection" \in Range(hnd[c].log) =>
                /\ hnd[c].log = <<"rejection">>
                /\ hnd[c].player = None
                /\ hpc[c] \in {"finally", "closed"}
                /\ it[c].outcome = "none")
    /\ [][\A c \in Clients :
            (/\ hpc[c] = "add_player" /\ hpc'[c] # "add_player" /\ SessionFull)
            \/ (/\ hpc[c] = "finally" /\ hpc'[c] # "finally"
                /\ hnd[c].log = <<"rejection">>)
            => /\ hnd'[c].log = <<"rejection">>
               /\ hpc'[c] \in {"finally", "closed"}
               /\ UNCHANGED <<players, players_by_connection, player_locations,
                              game_history, history_count>>]_vars

\* a handler was refused by a full registry and has ended, while the player
\* that fills the registry is still in it
C13_Witness ==
    \E c \in Clients :
        /\ hpc[c] = "closed"
        /\ hnd[c].log = <<"rejection">>
        /\ Len(players) = max_players

(***************************************************************************)
(* Claims about broadcast_message                                          *)
(***************************************************************************)
\* C14: a broadcast_message call that has run to its end attempted delivery
\* exactly once to every registered player other than exclude_player and never
\* to exclude_player, whichever of the sends failed, and raised nothing to its
\* caller.
C14_Broadcast ==
    \A c \in Clients :
        BroadcastEnded(c) =>
            /\ it[c].outcome = "stop"
            /\ {it[c].attempts[k].id : k \in 1..Len(it[c].attempts)} = it[c].targets
            /\ Len(it[c].attempts) = Cardinality(it[c].targets)
            /\ \A k \in 1..Len(it[c].attempts) :
                  it[c].attempts[k].id # it[c].exclude_player
            /\ it[c].targets = PlayerIds \ {it[c].exclude_player}

\* a broadcast over three registered players, one of them excluded, ended
\* after the first send failed and the next one went through
C14_Witness ==
    \E c \in Clients :
        /\ it[c].outcome = "stop"
        /\ it[c].exclude_player \in PlayerIds
        /\ Len(it[c].attempts) = 2
        /\ ~it[c].attempts[1].ok
        /\ it[c].attempts[2].ok


\* C15: add_action with a type outside 'fazer', 'dizer', 'historia' fails with
\* an error and leaves the actions list and last_story_context unchanged; with
\* a valid type it appends exactly one new unprocessed entry at the end of the
\* list and leaves the entries already there as they were.
C15_AddAction ==
    [][(q_last'.op = "add" /\ (q_last' # q_last \/ Len(heap') # Len(heap))) =>
         IF q_last'.arg \notin {"fazer", "dizer", "historia"}
         THEN /\ q_last'.raised
              /\ UNCHANGED <<heap, actions, last_story_context>>
         ELSE /\ ~q_last'.raised
              /\ Len(heap') = Len(heap) + 1
              /\ actions' = Append(actions, Len(heap'))
              /\ ~heap'[Len(heap')].processed
              /\ heap'[Len(heap')].action_type = q_last'.arg
              /\ \A a \in 1..Len(heap) : heap'[a] = heap[a]]_vars

\* an invalid submission was refused by a queue that holds a story action
C15_Witness ==
    /\ q_last.op = "add"
    /\ q_last.raised
    /\ Len(actions) = 1
    /\ last_story_context = 1

\* C16: last_story_context is the most recently submitted 'historia' action,
\* None (0) when none was submitted; 'fazer' and 'dizer' submissions leave it
\* as it was.
C16_StoryContext ==
    LET stories == {a \in 1..Len(heap) : heap[a].action_type = "historia"}
    IN last_story_context =
         IF stories = {} THEN 0
         ELSE CHOOSE a \in stories : \A b \in stories : b <= a

\* a 'fazer' or 'dizer' submission came after the story action
C16_Witness ==
    /\ Len(heap) = 2
    /\ heap[1].action_type = "historia"
    /\ heap[2].action_type # "historia"
    /\ last_story_context = 1

\* C17: get_unprocessed_actions returns exactly the entries with
\* processed = false, in stored order, changes no state, and called twice in
\* a row returns the same sequence.
C17_GetUnprocessed ==
    [][(q_last'.op = "get_unprocessed" /\ q_last' # q_last) =>
         LET result == q_last'.result
         IN /\ \A i, j \in 1..Len(result) : i # j => result[i] # result[j]
            /\ {result[i] : i \in 1..Len(result)} =
                 {actions[i] : i \in {k \in 1..Len(actions) : ~heap[actions[k]].processed}}
            /\ \A i, j \in 1..Len(result) :
                 i < j => PlaceIn(actions, result[i]) < PlaceIn(actions, result[j])
            /\ UNCHANGED <<heap, actions, last_story_context, processing_history>>
            /\ q_last'.again => result = q_last'.before]_vars

\* the second of two calls in a row, on a list with a processed and an
\* unprocessed entry
C17_Witness ==
    /\ q_last.op = "get_unprocessed"
    /\ q_last.again
    /\ Len(q_last.result) = 1
    /\ Len(actions) = 2

\* the sequence holds each of its elements once
NoRepeats(s) == \A i, j \in 1..Len(s) : i # j => s[i] # s[j]

\* the flush has fixed the order it processes its snapshot in
Sorted == fl.pc = "loop"

\* C18: under the 'chronological' processing order a flush processes the
\* pending actions exactly in their submission order, and actions with equal
\* timestamps keep their stored order.
C18_Chronological ==
    (Sorted /\ processing_order = "chronological") =>
        /\ fl.sorted_actions = fl.unprocessed_actions
        /\ \A a, b \in Range(fl.unprocessed_actions) :
              (heap[a].timestamp = heap[b].timestamp
                 /\ PlaceIn(actions, a) < PlaceIn(actions, b))
              => PlaceIn(fl.sorted_actions, a) < PlaceIn(fl.sorted_actions, b)

\* C18, amended: under the 'chronological' processing order, and unless the
\* tie-breaker is 'player_order', a flush processes the pending actions
\* exactly in their submission order, and actions with equal timestamps keep
\* their stored order.
C18_ChronologicalTimestamp ==
    (Sorted /\ processing_order = "chronological" /\ tie_breaker # "player_order") =>
        /\ fl.sorted_actions = fl.unprocessed_actions
        /\ \A a, b \in Range(fl.unprocessed_actions) :
              (heap[a].timestamp = heap[b].timestamp
                 /\ PlaceIn(actions, a) < PlaceIn(actions, b))
              => PlaceIn(fl.sorted_actions, a) < PlaceIn(fl.sorted_actions, b)

\* three submissions of one instant, the second by another player, sorted
\* chronologically with the 'timestamp' tie-breaker
C18_Witness ==
    /\ Sorted
    /\ processing_order = "chronological"
    /\ tie_breaker = "timestamp"
    /\ Len(fl.sorted_actions) = 3
    /\ \A a \in 1..3 : heap[a].timestamp = heap[1].timestamp
    /\ heap[1].player_id = heap[3].player_id
    /\ heap[1].player_id # heap[2].player_id

\* C19: for every processing order and every tie-breaker setting, the
\* sequence a flush processes is a permutation of the actions pending at
\* flush start: each appears exactly once and no other action appears.
C19_Permutation ==
    Sorted =>
        /\ \A a \in Range(fl.unprocessed_actions) :
              Cardinality({i \in 1..Len(fl.sorted_actions) : fl.sorted_actions[i] = a}) = 1
        /\ \A i \in 1..Len(fl.sorted_actions) :
              fl.sorted_actions[i] \in Range(fl.unprocessed_actions)
        /\ Range(fl.unprocessed_actions) = {a \in Range(actions) : ~heap[a].processed}
        /\ NoRepeats(fl.unprocessed_actions)

\* a shuffled batch of three, re-sorted by the tie-breaker into another order
\* than the stored one
C19_Witness ==
    /\ Sorted
    /\ processing_order = "random"
    /\ tie_breaker = "player_order"
    /\ Len(fl.sorted_actions) = 3
    /\ fl.sorted_actions # fl.unprocessed_actions

\* the primary policy puts a strictly before or after b: their sort keys differ
OrdersStrictly(a, b) ==
    IF processing_order = "chronological"
    THEN heap[a].timestamp # heap[b].timestamp
    ELSE PriorityKey(a) # PriorityKey(b)

\* C20: with the 'player_order' tie-breaker, any two pending actions that the
\* primary policy orders strictly are processed in the same relative order
\* as without the tie-breaker.
C20_TieBreakKeepsPrimary ==
    (Sorted /\ tie_breaker = "player_order" /\ processing_order # "random") =>
        LET primary == PrimaryOrder(fl.unprocessed_actions, fl.unprocessed_actions)
        IN \A a, b \in Range(fl.unprocessed_actions) :
              (OrdersStrictly(a, b) /\ PlaceIn(primary, a) < PlaceIn(primary, b))
              => PlaceIn(fl.sorted_actions, a) < PlaceIn(fl.sorted_actions, b)

\* C21: remove_player on an id that is in the registry removes that player
\* from both registry maps and returns True; on an id that is not in the
\* registry, a second removal of the same id included, it returns False and
\* leaves the registry unchanged.
C21_RemovePlayer ==
    [][(reg_ret'.op = "remove_player" /\ (reg_ret' # reg_ret \/ players' # players)) =>
         IF reg_ret'.arg \in PlayerIds
         THEN /\ reg_ret'.ret = "True"
              /\ \A i \in 1..Len(players') : players'[i].id # reg_ret'.arg
              /\ \A c \in Conns : players_by_connection'[c] # reg_ret'.arg
              /\ Len(players') = Len(players) - 1
              /\ \A i \in 1..Len(players) :
                    players[i].id # reg_ret'.arg =>
                       /\ \E j \in 1..Len(players') : players'[j] = players[i]
                       /\ players_by_connection'[players[i].connection] = players[i].id
         ELSE /\ reg_ret'.ret = "False"
              /\ UNCHANGED <<players, players_by_connection, max_players, next_id>>]_vars

\* the second removal of a player, with another player still registered
C21_Witness ==
    /\ reg_ret.op = "remove_player"
    /\ reg_ret.ret = "False"
    /\ \E n \in 1..next_id : reg_ret.arg = PlayerIdOf(n)
    /\ Len(players) >= 1

\* the k-th suffixed form of a name
Suffixed(name, k) == name \o "_" \o ToString(k)

\* C22: add_player(name) on a registry that is not full gives the new player
\* the name itself when no registered player has it, and otherwise name_k for
\* the smallest k >= 1 such that name_k is no registered player's name.
C22_SmallestSuffix ==
    [][(reg_ret'.op = "add_player" /\ next_id' = next_id + 1) =>
         LET name == reg_ret'.arg
             given == players'[Len(players')].name
         IN IF name \notin PlayerNames
            THEN given = name
            ELSE \E k \in 1..(Len(players) + 1) :
                    /\ given = Suffixed(name, k)
                    /\ Suffixed(name, k) \notin PlayerNames
                    /\ \A j \in 1..(k - 1) : Suffixed(name, j) \in PlayerNames]_vars

\* a third 'Ana' joined 'Ana' and 'Ana_1' and became 'Ana_2'
C22_Witness ==
    /\ reg_ret.op = "add_player"
    /\ reg_ret.arg = "Ana"
    /\ Len(players) = 3
    /\ players[3].id = reg_ret.ret
    /\ players[3].name = "Ana_2"

\* C23: in every reachable state of the server every registered participant's
\* display name has at most 20 characters, names produced by the automatic
\* collision suffix included.
C23_NameLength ==
    \A i \in 1..Len(players) : Len(players[i].name) <= 20

\* C24: start_new_session marks the previous session inactive if it was
\* active, makes a new active session the single current session, empties
\* player_locations and active_quests, and removes no entry from
\* game_history or completed_quests: it only appends the starting-scenario
\* entry, subject to the history cap.
C24_NewSession ==
    [][current_session' # current_session =>
         /\ ~sessions'[current_session].is_active
         /\ current_session' = Len(sessions) + 1
         /\ Len(sessions') = Len(sessions) + 1
         /\ \A s \in 1..Len(sessions') : sessions'[s].is_active <=> s = current_session'
         /\ player_locations' = <<>>
         /\ active_quests' = <<>>
         /\ completed_quests' = completed_quests
         /\ LET dropped == Len(game_history) + 1 - Len(game_history')
            IN /\ dropped >= 0
               /\ dropped > 0 => Len(game_history') = max_history
               /\ game_history'[Len(game_history')].type = "system"
               /\ game_history'[Len(game_history')].timestamp = history_count + 1
               /\ SubSeq(game_history', 1, Len(game_history') - 1) =
                      SubSeq(game_history, dropped + 1, Len(game_history))]_vars

\* a second session was started over an active one, with a completed quest
\* kept and a history at its cap
C24_Witness ==
    /\ current_session = 3
    /\ ~sessions[2].is_active
    /\ sessions[3].is_active
    /\ Len(completed_quests) = 1
    /\ player_locations = <<>>
    /\ active_quests = <<>>
    /\ history_count > Len(game_history)
    /\ game_history[Len(game_history)].timestamp = history_count
    /\ game_history[Len(game_history)].message = "desperta"

\* process_player_action has returned and the broadcast has not begun
Responded == gm.pc = "responded"

\* C25: handling a '{status}' message through process_player_action is
\* read-only: it leaves the action queue, the player registry and the shared
\* game state (game_history, player_locations, quests) unchanged.
C25_StatusReadOnly ==
    (Responded /\ gm.message = "{status}") => EntryState = gm.entry

\* the messages that match none of the bracketed command patterns
FreeForm == {"ola", "{fazer}"}

\* C26: a message that matches none of the bracketed command patterns is
\* appended to game_history exactly once as a 'player' entry and broadcast to
\* all registered participants, and leaves the action list, the processed
\* flags and last_story_context unchanged.
C26_FreeFormMessage ==
    (gm.pc \in {"responded", "broadcast"} /\ gm.message \in FreeForm) =>
        /\ history_count = gm.entry.history_count + 1
        /\ LET last == game_history[Len(game_history)]
               kept == Len(game_history) - 1
               before == gm.entry.game_history
           IN /\ last.player = PlayerOf(gm.c).name
              /\ last.message = gm.message
              /\ last.type = "player"
              /\ kept <= Len(before)
              /\ SubSeq(game_history, 1, kept) =
                    SubSeq(before, Len(before) - kept + 1, Len(before))
        /\ actions = gm.entry.actions
        /\ heap = gm.entry.heap
        /\ last_story_context = gm.entry.last_story_context
        /\ (gm.pc = "broadcast" /\ BroadcastEnded(gm.c)) =>
              /\ it[gm.c].outcome = "stop"
              /\ {it[gm.c].attempts[i].id : i \in 1..Len(it[gm.c].attempts)} = PlayerIds
              /\ Len(it[gm.c].attempts) = Cardinality(PlayerIds)

\* '{fazer}' with no content, sent while an action waits in the queue, has
\* been broadcast to both participants
C26_Witness ==
    /\ gm.pc = "broadcast"
    /\ gm.message = "{fazer}"
    /\ it[gm.c].outcome = "stop"
    /\ Len(it[gm.c].attempts) = 2
    /\ Len(Unprocessed(actions)) = 1

\* C27: process_player_action returns a non-empty text response and raises
\* no error for every input message, a command or free-form text, in any
\* queue state.
C27_AlwaysResponds ==
    Responded =>
        /\ ~gm.raised
        /\ gm.response # None
        /\ Len(gm.response) > 0

\* the response to a {mestre} that processed two actions
C27_Witness ==
    /\ Responded
    /\ gm.message = "{mestre}"
    /\ q_last.op = "flush"
    /\ q_last.ret = 2

\* C28: once an action has processed = true, no later operation (add_action,
\* process_all_actions, clear_processed_actions) changes its content, its
\* result or its processed flag, and no operation changes the relative
\* stored order of two entries that both remain in the action list.
C28_ProcessedImmutable ==
    [][/\ \A a \in 1..Len(heap) :
            heap[a].processed =>
               /\ heap'[a].processed
               /\ heap'[a].content = heap[a].content
               /\ heap'[a].result = heap[a].result
       /\ \A a, b \in Range(actions) \cap Range(actions') :
            PlaceIn(actions, a) < PlaceIn(actions, b)
               => PlaceIn(actions', a) < PlaceIn(actions', b)]_vars

\* the quiet participant is registered, with its handler in the message loop
\* (at the loop test or inside recv), and its last message is more than the
\* configured timeout ago
Overdue ==
    /\ hpc[Quiet] \in {"loop", "recv"}
    /\ hnd[Quiet].player \in PlayerIds
    /\ (clock - last_activity[hnd[Quiet].player]) * SecondsPerMinute
          > config.session_timeout * 60

\* the handler of the quiet participant has gone through the disconnect path
\* and the registry no longer holds the participant
Evicted ==
    /\ hpc[Quiet] = "closed"
    /\ hnd[Quiet].player \notin PlayerIds
    /\ players_by_connection[Quiet] = None

\* C29: when a positive activity timeout is configured, a registered
\* participant whose connection stays open but who sends no message for
\* longer than the timeout is eventually disconnected and removed from the
\* registry.
C29_IdleEvicted ==
    (config.session_timeout > 0 /\ Overdue) ~> Evicted

\* the auto-save thread's last attempt failed
SaveFailed == autosave.last \in {"open_failed", "write_failed"}

\* the step in which a save attempt fails
FailingSave ==
    /\ autosave.pc = "save"
    /\ autosave'.pc = "test"
    /\ autosave'.last \in {"open_failed", "write_failed"}

\* C30: a snapshot attempt that fails does not stop the auto-save loop: while
\* the server is running, after any failed save the loop reaches a later save
\* attempt, and the failure changes no game state and terminates no
\* connection handler.
C30_FailedSave ==
    /\ (SaveFailed /\ autosave.pc = "test") ~> (autosave.pc = "save" \/ ~is_running)
    /\ [][FailingSave =>
             UNCHANGED <<hpc, hnd, game_history, history_count, player_locations,
                         active_quests, completed_quests, sessions, current_session,
                         total_sessions, last_save>>]_vars

\* the actions a thread inside process_all_actions has a result for
ResultsOf(locals) == {locals.sorted_actions[k] : k \in 1..Len(locals.results)}

\* C31: when two connection handlers run process_all_actions concurrently,
\* every submitted action is processed by exactly one of the two flushes: no
\* action is among the results of both, and when both have finished none of
\* the actions they found pending is left unprocessed.
C31_ExactlyOneFlush ==
    /\ ResultsOf(fl) \cap ResultsOf(fl2) = {}
    /\ (fl.pc = "done" /\ fl2.pc = "done")
          => \A a \in fl.pending0 \cup fl2.pending0 : heap[a].processed

\* C32: when two connection handler threads execute add_player concurrently,
\* with the capacity check, the name-uniqueness check and the insertion of
\* each call interleaved in any order, the registry never holds more than
\* max_players players and never holds two players with the same display name.
C32_ConcurrentAddPlayer ==
    /\ Len(players) <= max_players
    /\ \A i, j \in 1..Len(players) : players[i].name = players[j].name => i = j

\* C33: a broadcast_message that is iterating over the registry on one
\* connection thread while another connection registers or unregisters a
\* player completes without error and has then attempted delivery to every
\* participant that stayed registered, and the broadcast of a message never
\* makes the broadcasting participant's handler leave the message loop.
C33_BroadcastDuringChange ==
    /\ [](\A c \in Clients :
            /\ it[c].outcome # "RuntimeError"
            /\ it[c].outcome = "stop" =>
                  (it[c].targets \cap PlayerIds)
                     \subseteq {it[c].attempts[k].id : k \in 1..Len(it[c].attempts)})
    /\ [][\A c \in Clients :
            hpc[c] = "chat_broadcast" => hpc'[c] \in {"chat_broadcast", "loop"}]_vars

\* C34: if processing one action of a batch raises inside
\* _process_single_action, process_all_actions goes on: it records a failed
\* result for that action, processes the remaining actions, marks the whole
\* batch processed and returns a result without raising.
C34_ErrorInOneAction ==
    q_last.op = "process_single" =>
        /\ fl.pc \in {"loop", "apply", "mark", "summary", "done"}
        /\ \E k \in 1..Len(fl.results) :
              fl.sorted_actions[k] = q_last.arg /\ ~fl.results[k].success
        /\ fl.pc = "done" =>
              /\ Len(fl.results) = Len(fl.unprocessed_actions)
              /\ \A a \in Range(fl.unprocessed_actions) : heap[a].processed

\* C35: every action of a flush batch and the batch's final summary are
\* processed with one story context, the content last_story_context had when
\* the flush read it at its start; a 'historia' submitted while the flush
\* runs and the results of earlier actions do not change it, and the flush
\* appends nothing to the game history before the last action of the batch
\* has been processed.
C35_OneStoryContext ==
    /\ [](\A k \in 1..Len(fl.contexts) : fl.contexts[k] = fl.story_context)
    /\ [][fl.pc = "context" =>
             fl'.story_context = (IF last_story_context # 0
                                  THEN heap[last_story_context].content
                                  ELSE None)]_vars
    /\ [][fl.pc \in {"loop", "apply", "mark", "summary"} =>
             fl'.story_context = fl.story_context]_vars
    /\ [][fl.pc \in {"context", "loop"} =>
             (game_history' = game_history /\ history_count' = history_count)]_vars

\* a batch of two and its summary were processed while a later 'historia'
\* had replaced last_story_context
C35_Witness ==
    /\ fl.pc = "done"
    /\ Len(fl.contexts) = 3
    /\ last_story_context > fl.base
    /\ heap[last_story_context].content # fl.story_context
    /\ fl.story_context # None

\* C36: the processing-history log is bounded: there is a fixed maximum
\* length that processing_history never exceeds, however many non-empty
\* flushes have appended their record.  A non-empty flush needs an action of
\* its own, so the runs hold at most MaxActions of them, and the maximum is
\* any length below that number.
C36_BoundedLog == Len(processing_history) < MaxActions

\* C37: len(game_history) <= max_history in every reachable state of a
\* GameState, whatever sequence of add_to_history, set_player_location,
\* add_quest, complete_quest, start_new_session, flush updates and
\* load_game_state led to it, a load of a file whose history is longer than
\* max_history included.
C37_HistoryBounded ==
    /\ Len(game_history) <= max_history
    /\ fresh.pc # "none" => Len(fresh.game_history) <= max_history

\* C38: a participant's disconnect (or eviction) leaves the action queue
\* unchanged, and the actions that participant left pending are processed
\* by the next flush like any other, whether the participant left before the
\* flush or during it: the result carries the player id and the content
\* stored in the action and is a success.
C38_DisconnectKeepsQueue ==
    /\ [][\A c \in Clients :
             (hpc[c] \in {"finally", "leave_broadcast"}
                 /\ (hpc'[c] # hpc[c] \/ it'[c] # it[c]))
             => UNCHANGED <<heap, actions, last_story_context>>]_vars
    /\ [](fl.pc \in {"summary", "done"} =>
             \A a \in fl.pending0 :
                 /\ heap[a].processed
                 /\ heap[a].result # NoResult
                 /\ heap[a].result.success
                 /\ heap[a].result.player_id = heap[a].player_id
                 /\ heap[a].result.content = heap[a].content
                 /\ \E k \in 1..Len(fl.results) : fl.results[k] = heap[a].result)

\* the flush has processed and marked an action whose submitter's handler is
\* in _handle_player_disconnect, the submitter already out of the registry
C38_Witness ==
    /\ fl.pc = "summary"
    /\ \E c \in Clients :
          /\ hpc[c] = "leave_broadcast"
          /\ hnd[c].player \notin PlayerIds
          /\ \E a \in fl.pending0 : heap[a].player_id = hnd[c].player /\ heap[a].processed

\* C39: after any sequence of add_quest and complete_quest calls no two
\* quests in active_quests have the same id and no quest (id) is in both
\* active_quests and completed_quests.
C39_QuestIds ==
    /\ \A i, j \in 1..Len(active_quests) :
          active_quests[i].id = active_quests[j].id => i = j
    /\ \A i \in 1..Len(active_quests), j \in 1..Len(completed_quests) :
          active_quests[i].id # completed_quests[j].id

\* C40: last_story_context is never cleared: it changes only when a
\* 'historia' is submitted, to that action, whose content never changes; once
\* a flush has processed the action and clear_processed_actions has removed
\* it from the queue it still refers to it, and every later flush takes that
\* action's content as its story context until another 'historia' arrives.
C40_StoryContextKept ==
    /\ [][last_story_context' # last_story_context =>
             /\ Len(heap') = Len(heap) + 1
             /\ last_story_context' = Len(heap')
             /\ heap'[Len(heap')].action_type = "historia"]_vars
    /\ [][\A a \in 1..Len(heap) :
             /\ heap'[a].content = heap[a].content
             /\ heap'[a].action_type = heap[a].action_type]_vars
    /\ [](/\ fl.pc \in {"loop", "apply", "mark", "summary", "done"}
          /\ fl.unprocessed_actions # <<>>
          /\ last_story_context <= fl.base
          => fl.story_context = (IF last_story_context # 0
                                 THEN heap[last_story_context].content
                                 ELSE None))

\* a flush of a later action runs with the content of a 'historia' that an
\* earlier flush processed and a compaction removed from the queue
C40_Witness ==
    /\ fl.pc = "summary"
    /\ last_story_context # 0
    /\ heap[last_story_context].processed
    /\ last_story_context \notin Range(actions)
    /\ last_story_context \notin Range(fl.unprocessed_actions)
    /\ fl.contexts # <<>>
    /\ \A k \in 1..Len(fl.contexts) : fl.contexts[k] = heap[last_story_context].content
    /\ processing_history # <<>>
=============================================================================
